---------------------------- MODULE Spec2Model ----------------------------
(***************************************************************************)
(* Verification model of the kamafile retrieval-augmented question         *)
(* answering backend (src/backend/services).                               *)
(*                                                                         *)
(* The module holds several specifications over one set of variables:      *)
(*   SpecThink  - RagController.think and rule_based_intent                *)
(*   SpecQuery  - RAGQueryService.process_query (the orchestrator)         *)
(*   SpecRank   - RerankerService.rank                                     *)
(*   SpecIndex  - VectorStore.add_chunks / search / delete_document and    *)
(*                the ingestion that feeds it                              *)
(*   SpecChunk  - document_processor.chunk_by_legal_sections               *)
(*   SpecSearch - VectorStore.search                                       *)
(*   SpecOtp, SpecOnboarding - the OTP service and the onboarding steps    *)
(*   SpecLoop   - process_query coroutines on one asyncio event loop       *)
(*   SpecIngest - concurrent ingestions of one document                    *)
(*   SpecLookup - concurrent get_or_create_session calls                   *)
(* Each specification leaves the variables of the others at their idle     *)
(* values.  Text is modelled as a sequence of one-character strings, so    *)
(* that lower(), strip(), re.sub and substring tests are computed.         *)
(***************************************************************************)
EXTENDS Integers, Sequences, FiniteSets, TLC

VARIABLES
    \* ---- think() ----
    apiKey,      \* RagController.api_key is configured
    tq,          \* the user query given to think()
    thist,       \* one entry per completed think() call: provider reply and outcome
    \* ---- process_query() ----
    pc,          \* position inside process_query
    query,       \* the user query
    decision,    \* the planner's RagDecision (None before think returns)
    qi,          \* index of the next planner search query
    allChunks,   \* all_chunks: merged candidates of the planner queries
    candidates,  \* candidate_chunks
    topChunks,   \* top_chunks
    context,     \* context blocks handed to the generator
    calls,       \* number of collaborator calls made, per collaborator
    searchLog,   \* one entry per index search: which query, how many hits
    raised,      \* the stage whose call raised into process_query ("none" if none)
    rerankRaised,\* the reranker call raised and was absorbed at line 192
    escaped,     \* an exception left process_query
    result,      \* the returned dictionary (None until it returns)
    \* ---- rank() ----
    rdocs,       \* the documents list given to rank()
    rtopk,       \* top_k
    rreply,      \* the scoring provider's reply
    rout,        \* the list rank() returned
    rdone,       \* rank() has returned
    \* ---- chunk_by_legal_sections() ----
    cdoc,        \* the lines of the document text
    cout,        \* the chunks returned, or the exception raised
    cdone,       \* chunk_by_legal_sections() has returned
    \* ---- the vector index ----
    points,      \* the points of the Qdrant collection
    staged,      \* the chunks of the last chunking, with their chunk ids
    stagedFrom,  \* the document they were made from
    uuidNext,    \* the number of uuid4 draws so far
    indexLog,    \* the calls on the index made so far
    \* ---- search() ----
    sdense,      \* the points ranked by the dense query vector
    ssparse,     \* the points ranked by the sparse query vector, if one is given
    stopk,       \* top_k
    srrfk,       \* the constant k of the index's Reciprocal Rank Fusion
    sminscore,   \* min_score
    sout,        \* the list search() returned
    sdone,       \* search() has returned
    \* ---- the OTP service ----
    otpStore,    \* Redis: the value of key otp:<phone>, per phone (None: no key)
    otpIssued,   \* per phone: how many generate_otp calls stored a code
    verifying,   \* per request: the verify_otp call in progress, if any
    accepted,    \* per phone and issue: how many verify_otp calls returned True
    otpCalls,    \* the number of verify_otp calls started
    \* ---- onboarding ----
    session,     \* the ConversationSession row: status, current_step, step_data
    profiles,    \* the UserProfile rows of the session
    obCall,      \* the last handle_onboarding_step call: step and user_response
    obReturn,    \* what that call returned, or that it raised
    obCount,     \* the number of handle_onboarding_step calls so far
    consented,   \* history: a consent step of the session was answered consent_yes
    \* ---- the event loop that runs process_query coroutines ----
    task,        \* per query: the stage its process_query coroutine is at
    thread,      \* the coroutine the event loop's thread is running (0: none)
    \* ---- concurrent ingestions of one document ----
    ingest,      \* per ingestion: its position and the chunks it made
    \* ---- concurrent get_or_create_session calls ----
    sessionRows, \* the rows of the table conversation_sessions
    getCall      \* per caller: the get_or_create_session call it makes

thinkVars == <<apiKey, tq, thist>>
queryVars == <<pc, query, decision, qi, allChunks, candidates, topChunks, context,
               calls, searchLog, raised, rerankRaised, escaped, result>>
rankVars  == <<rdocs, rtopk, rreply, rout, rdone>>
chunkVars == <<cdoc, cout, cdone>>
indexVars == <<points, staged, stagedFrom, uuidNext, indexLog>>
searchVars == <<sdense, ssparse, stopk, srrfk, sminscore, sout, sdone>>
storeVars == <<chunkVars, indexVars, searchVars>>
otpVars == <<otpStore, otpIssued, verifying, accepted, otpCalls>>
onbVars == <<session, profiles, obCall, obReturn, obCount, consented>>
sessionVars == <<otpVars, onbVars>>
loopVars == <<task, thread>>
ingestVars == <<ingest>>
lookupVars == <<sessionRows, getCall>>
concVars == <<loopVars, ingestVars, lookupVars>>
vars == <<thinkVars, queryVars, rankVars, storeVars, sessionVars, concVars>>

None == "None"

-----------------------------------------------------------------------------
(* Bounds of the model *)

\* how many times think() is called on the same query
MaxThinkCalls == 2
\* longest documents list given to rank() on its own
MaxDocs == 16
\* most points one index search of process_query finds
MaxHits == 2
MaxLines == 3
MaxUuids == 4
MaxIndexCalls == 3
\* most generate_otp calls that store a code, per phone number
MaxOtps == 2
\* most verify_otp calls started
MaxVerifyCalls == 3
\* most handle_onboarding_step calls on the session
MaxSteps == 2
\* the page size of the scroll in delete_document (vector_store.py line 273:
\* limit=10000), scaled to the documents of the model
ScrollLimit == 2

-----------------------------------------------------------------------------
(* Strings as sequences of characters *)

UpperChars == <<"A","B","C","D","E","F","G","H","I","J","K","L","M",
                "N","O","P","Q","R","S","T","U","V","W","X","Y","Z">>
LowerChars == <<"a","b","c","d","e","f","g","h","i","j","k","l","m",
                "n","o","p","q","r","s","t","u","v","w","x","y","z">>
Digits     == {"0","1","2","3","4","5","6","7","8","9"}
Whitespace == {" ", "\n", "\t"}

Range(s) == { s[i] : i \in DOMAIN s }

\* str.lower() on one character
LowerChar(c) ==
    IF \E i \in DOMAIN UpperChars : UpperChars[i] = c
    THEN LowerChars[CHOOSE i \in DOMAIN UpperChars : UpperChars[i] = c]
    ELSE c

\* str.lower()
Lower(s) == [i \in DOMAIN s |-> LowerChar(s[i])]

\* \w of the re module (ASCII letters, digits, underscore)
IsWordChar(c) == c \in Range(UpperChars) \cup Range(LowerChars) \cup Digits \cup {"_"}

\* str.strip()
Strip(s) ==
    LET idx == { i \in DOMAIN s : s[i] \notin Whitespace }
    IN  IF idx = {} THEN <<>>
        ELSE LET lo == CHOOSE i \in idx : \A j \in idx : i <= j
                 hi == CHOOSE i \in idx : \A j \in idx : i >= j
             IN  SubSeq(s, lo, hi)

\* re.sub(r'[^\w\s]', '', s)
RemovePunct(s) == SelectSeq(s, LAMBDA c : IsWordChar(c) \/ c \in Whitespace)

\* len(s.split()): the number of maximal runs of non-whitespace characters
WordCount(s) ==
    Cardinality({ i \in DOMAIN s :
                    /\ s[i] \notin Whitespace
                    /\ (i = 1 \/ s[i-1] \in Whitespace) })

\* w in s (substring test)
IsSubstring(w, s) ==
    \E i \in 0..(Len(s) - Len(w)) : SubSeq(s, i + 1, i + Len(w)) = w

-----------------------------------------------------------------------------
(* rag_controller.py: the Tier-1 vocabulary *)

GREETINGS ==
    { <<"h","i">>,
      <<"h","e","l","l","o">>,
      <<"h","e","y">>,
      <<"h","o","w","d","y">>,
      <<"g","r","e","e","t","i","n","g","s">>,
      <<"g","o","o","d"," ","m","o","r","n","i","n","g">>,
      <<"g","o","o","d"," ","a","f","t","e","r","n","o","o","n">>,
      <<"g","o","o","d"," ","e","v","e","n","i","n","g">>,
      <<"g","o","o","d"," ","d","a","y">>,
      <<"h","i"," ","t","h","e","r","e">>,
      <<"h","e","l","l","o"," ","t","h","e","r","e">>,
      <<"h","e","y"," ","t","h","e","r","e">>,
      <<"m","o","r","n","i","n","g">>,
      <<"a","f","t","e","r","n","o","o","n">>,
      <<"e","v","e","n","i","n","g">> }

THANKS_WORDS ==
    { <<"t","h","a","n","k","s">>,
      <<"t","h","a","n","k"," ","y","o","u">>,
      <<"t","h","x">>,
      <<"t","h","a","n","k">>,
      <<"a","p","p","r","e","c","i","a","t","e","d">>,
      <<"c","h","e","e","r","s">> }

\* each pattern is ^<text>\??$ (the last one, "help", has no optional "?")
AI_PATTERNS ==
    << [text |-> <<"w","h","a","t"," ","c","a","n"," ","y","o","u"," ","d","o">>, optq |-> TRUE],
       [text |-> <<"w","h","o"," ","a","r","e"," ","y","o","u">>, optq |-> TRUE],
       [text |-> <<"w","h","a","t"," ","a","r","e"," ","y","o","u">>, optq |-> TRUE],
       [text |-> <<"h","e","l","p">>, optq |-> FALSE],
       [text |-> <<"w","h","a","t"," ","d","o"," ","y","o","u"," ","d","o">>, optq |-> TRUE] >>

\* re.match(pattern, s) for the patterns above
PatternMatches(p, s) == s = p.text \/ (p.optq /\ s = p.text \o <<"?">>)

GreetingResponse == "Hey there! What tax questions can I help you sort out today?"
ThanksResponse   == "Happy to help! Let me know if anything else comes up."
AboutResponse    == "I'm your go-to for Nigerian tax matters! ..."

\* rule_based_intent(query) -> (intent, direct_response), (None, None) if no rule matches
rule_based_intent(q) ==
    LET q1      == Strip(Lower(q))
        q_clean == Strip(RemovePunct(q1))
    IN  IF q_clean \in GREETINGS
        THEN <<"chitchat", GreetingResponse>>
        ELSE IF WordCount(q_clean) <= 5 /\ \E w \in THANKS_WORDS : IsSubstring(w, q_clean)
        THEN <<"chitchat", ThanksResponse>>
        ELSE IF \E i \in DOMAIN AI_PATTERNS : PatternMatches(AI_PATTERNS[i], q_clean)
        THEN <<"direct_answer", AboutResponse>>
        ELSE <<None, None>>

-----------------------------------------------------------------------------
(* rag_controller.py: RagDecision and think() *)

Absent == "Absent"

\* Optional[List[str]]: None, or a list; a JSON reply may also carry a non-list
NoneList    == [k |-> "none"]
SomeList(l) == [k |-> "list", v |-> l]
NotAList    == [k |-> "str"]

Intents == {"search", "conceptual", "chitchat", "off_topic"}
Styles  == {"concise", "detailed"}

\* sample user queries
QHi        == <<"H","i","!">>
QThanks    == <<"t","h","a","n","k","s">>
QHello     == <<" ","H","e","l","l","o"," ","t","h","e","r","e"," ">>
QWhatCan   == <<"W","h","a","t"," ","c","a","n"," ","y","o","u"," ","d","o","?">>
QHelp      == <<"h","e","l","p">>
QThanksgiv == <<"T","h","a","n","k","s","g","i","v","i","n","g"," ","t","a","x","?">>
QVat       == <<"W","h","a","t"," ","i","s"," ","t","h","e"," ","V","A","T"," ","r","a","t","e","?">>
QGift      == <<"I","s"," ","a"," ","t","h","a","n","k","-","y","o","u"," ","g","i","f","t"," ",
                "t","o"," ","m","y"," ","l","o","y","a","l"," ","s","t","a","f","f"," ",
                "t","a","x","a","b","l","e","?">>

Queries == {QHi, QThanks, QHello, QWhatCan, QHelp, QThanksgiv, QVat, QGift}

\* search queries a provider reply may carry
PQ1 == <<"v","a","t"," ","r","a","t","e">>
PQ2 == <<"v","a","t"," ","a","c","t">>

LlmDirect == "direct response written by the provider"

\* The JSON object of a provider reply; a field with value Absent (NoneList for
\* search_queries) is a missing key.
JsonData(i, sq, dr, st) ==
    [intent |-> i, search_queries |-> sq, direct_response |-> dr, response_style |-> st]

\* What the Tier-2 provider call can produce.
ProviderReplies ==
    { [kind |-> "http_error"],       \* raise_for_status() / connection error
      [kind |-> "timeout"],          \* httpx timeout after 15 s
      [kind |-> "bad_envelope"],     \* result['choices'][0]... raises
      [kind |-> "not_json"],         \* json.loads raises JSONDecodeError
      [kind |-> "json_nondict"] }    \* json.loads gives a list, number or null
    \cup
    { [kind |-> "json", data |-> d] : d \in
        { JsonData("search", SomeList(<<PQ1, PQ2>>), Absent, "concise"),
          JsonData("search", NoneList, Absent, Absent),
          JsonData("conceptual", NoneList, LlmDirect, "detailed"),
          JsonData("conceptual", SomeList(<<PQ1>>), LlmDirect, "detailed"),
          JsonData("chitchat", NoneList, LlmDirect, "verbose"),
          JsonData("off_topic", NoneList, LlmDirect, "concise"),
          JsonData("off_topic", NoneList, Absent, Absent),
          JsonData("clarify", NoneList, LlmDirect, "concise"),
          JsonData(Absent, SomeList(<<PQ1>>), Absent, "detailed"),
          JsonData("search", NotAList, Absent, "detailed") } }

\* RagDecision(**data): pydantic validation of the fields.
DecisionValid(data) ==
    /\ data.intent \in Intents
    /\ data.search_queries.k \in {"none", "list"}
    /\ data.response_style \in Styles \cup {Absent}

\* The RagDecision built from validated fields, defaults filled in.
RagDecision(data) ==
    [intent          |-> data.intent,
     search_queries  |-> data.search_queries,
     direct_response |-> IF data.direct_response = Absent THEN None ELSE data.direct_response,
     response_style  |-> IF data.response_style = Absent THEN "detailed" ELSE data.response_style]

\* Mutant of FallbackDecision: the degraded decision forgets the user query.
FallbackDecision_NoQuery(q) ==
    RagDecision(JsonData("search", NoneList, Absent, Absent))

\* The degraded decision of every fallback branch of think().
FallbackDecision(q) ==
    RagDecision(JsonData("search", SomeList(<<q>>), Absent, Absent))

\* think() outcome: a returned decision or a raised exception, and the provider calls made
Returned(d, n) == [kind |-> "ok", decision |-> d, providerCalls |-> n]
Raised(e, n)   == [kind |-> "raise", exc |-> e, providerCalls |-> n]

\* Tier 1 of think(): RagDecision(intent=intent, direct_response=response, response_style="concise")
ThinkTier1(rule) ==
    LET data == JsonData(rule[1], NoneList, rule[2], "concise")
    IN  IF DecisionValid(data) THEN Returned(RagDecision(data), 0)
        ELSE Raised("ValidationError", 0)

\* The parse step of Tier 2: json.loads, response_style repair, RagDecision(**data)
ThinkParse(q, reply) ==
    IF reply.kind = "not_json" THEN FallbackDecision(q)          \* except json.JSONDecodeError
    ELSE IF reply.kind = "json_nondict" THEN FallbackDecision(q) \* except Exception (inner)
    ELSE LET fixed == IF reply.data.response_style \in Styles
                      THEN reply.data
                      ELSE [reply.data EXCEPT !.response_style = "detailed"]
         IN  IF DecisionValid(fixed) THEN RagDecision(fixed)
             ELSE FallbackDecision(q)                            \* except Exception (inner)

\* Tier 2 of think()
ThinkTier2(q, hasKey, reply) ==
    IF ~hasKey THEN Returned(FallbackDecision(q), 0)
    ELSE IF reply.kind \in {"http_error", "timeout", "bad_envelope"}
    THEN Returned(FallbackDecision(q), 1)                        \* except Exception (outer)
    ELSE Returned(ThinkParse(q, reply), 1)

\* RagController.think(user_query)
Think(q, hasKey, reply) ==
    LET rule == rule_based_intent(q)
    IN  IF rule[1] # None THEN ThinkTier1(rule)
        ELSE ThinkTier2(q, hasKey, reply)

-----------------------------------------------------------------------------
(* Texts.  A text is a string; Chars gives its characters, on which the
   substring tests of the code are computed. *)

AnswerCited == "The penalty is N50,000 [1]."
AnswerPlain == "The penalty is N50,000."
AnswerNoRecords == "I don't have that specific information in my records yet."
AnswerNotEnough == "I don't have enough information to answer this [1]."
InsufficientSentence == "I don't have enough information in my knowledge base to answer this question. Please consult with a tax expert."
InsufficientAfterRerank == "I don't have enough information in my knowledge base to answer this question. Please consult with a tax expert or refer to the official tax authority documents."
ErrorApology == "I encountered an error while processing your question. Please try again or consult with a tax expert."
NotConfiguredAnswer == "LLM service is not configured. Please configure API keys."
HttpErrorApology == "I encountered an error while generating the answer. Please try again."
GenErrorApology == "I encountered an error while processing your question. Please try again."
PhraseNotEnough == "don't have enough information"
PhraseNotInKb == "not in my knowledge base"
PhraseConsult == "consult with a tax expert"
PhraseCannot == "I cannot answer"

\* the characters of a text
Chars(text) ==
    CASE text = AnswerCited ->
           <<"T","h","e"," ","p","e","n","a","l","t","y"," ","i","s"," ","N","5","0",",","0","0","0"," ","[","1","]",".">>
      [] text = AnswerPlain ->
           <<"T","h","e"," ","p","e","n","a","l","t","y"," ","i","s"," ","N","5","0",",","0","0","0",".">>
      [] text = AnswerNoRecords ->
           <<"I"," ","d","o","n","'","t"," ","h","a","v","e"," ","t","h","a","t"," ","s","p","e","c","i","f","i","c"," ","i","n","f","o","r","m","a","t","i","o","n"," ","i","n"," ","m","y"," ","r","e","c","o","r","d","s"," ","y","e","t",".">>
      [] text = AnswerNotEnough ->
           <<"I"," ","d","o","n","'","t"," ","h","a","v","e"," ","e","n","o","u","g","h"," ","i","n","f","o","r","m","a","t","i","o","n"," ","t","o"," ","a","n","s","w","e","r"," ","t","h","i","s"," ","[","1","]",".">>
      [] text = InsufficientSentence ->
           <<"I"," ","d","o","n","'","t"," ","h","a","v","e"," ","e","n","o","u","g","h"," ","i","n","f","o","r","m","a","t","i","o","n"," ","i","n"," ","m","y"," ","k","n","o","w","l","e","d","g","e"," ","b","a","s","e"," ","t","o"," ","a","n","s","w","e","r"," ","t","h","i","s"," ","q","u","e","s","t","i","o","n","."," ","P","l","e","a","s","e"," ","c","o","n","s","u","l","t"," ","w","i","t","h"," ","a"," ","t","a","x"," ","e","x","p","e","r","t",".">>
      [] text = InsufficientAfterRerank ->
           <<"I"," ","d","o","n","'","t"," ","h","a","v","e"," ","e","n","o","u","g","h"," ","i","n","f","o","r","m","a","t","i","o","n"," ","i","n"," ","m","y"," ","k","n","o","w","l","e","d","g","e"," ","b","a","s","e"," ","t","o"," ","a","n","s","w","e","r"," ","t","h","i","s"," ","q","u","e","s","t","i","o","n","."," ","P","l","e","a","s","e"," ","c","o","n","s","u","l","t"," ","w","i","t","h"," ","a"," ","t","a","x"," ","e","x","p","e","r","t"," ","o","r"," ","r","e","f","e","r"," ","t","o"," ","t","h","e"," ","o","f","f","i","c","i","a","l"," ","t","a","x"," ","a","u","t","h","o","r","i","t","y"," ","d","o","c","u","m","e","n","t","s",".">>
      [] text = ErrorApology ->
           <<"I"," ","e","n","c","o","u","n","t","e","r","e","d"," ","a","n"," ","e","r","r","o","r"," ","w","h","i","l","e"," ","p","r","o","c","e","s","s","i","n","g"," ","y","o","u","r"," ","q","u","e","s","t","i","o","n","."," ","P","l","e","a","s","e"," ","t","r","y"," ","a","g","a","i","n"," ","o","r"," ","c","o","n","s","u","l","t"," ","w","i","t","h"," ","a"," ","t","a","x"," ","e","x","p","e","r","t",".">>
      [] text = NotConfiguredAnswer ->
           <<"L","L","M"," ","s","e","r","v","i","c","e"," ","i","s"," ","n","o","t"," ","c","o","n","f","i","g","u","r","e","d","."," ","P","l","e","a","s","e"," ","c","o","n","f","i","g","u","r","e"," ","A","P","I"," ","k","e","y","s",".">>
      [] text = HttpErrorApology ->
           <<"I"," ","e","n","c","o","u","n","t","e","r","e","d"," ","a","n"," ","e","r","r","o","r"," ","w","h","i","l","e"," ","g","e","n","e","r","a","t","i","n","g"," ","t","h","e"," ","a","n","s","w","e","r","."," ","P","l","e","a","s","e"," ","t","r","y"," ","a","g","a","i","n",".">>
      [] text = GenErrorApology ->
           <<"I"," ","e","n","c","o","u","n","t","e","r","e","d"," ","a","n"," ","e","r","r","o","r"," ","w","h","i","l","e"," ","p","r","o","c","e","s","s","i","n","g"," ","y","o","u","r"," ","q","u","e","s","t","i","o","n","."," ","P","l","e","a","s","e"," ","t","r","y"," ","a","g","a","i","n",".">>
      [] text = PhraseNotEnough ->
           <<"d","o","n","'","t"," ","h","a","v","e"," ","e","n","o","u","g","h"," ","i","n","f","o","r","m","a","t","i","o","n">>
      [] text = PhraseNotInKb ->
           <<"n","o","t"," ","i","n"," ","m","y"," ","k","n","o","w","l","e","d","g","e"," ","b","a","s","e">>
      [] text = PhraseConsult ->
           <<"c","o","n","s","u","l","t"," ","w","i","t","h"," ","a"," ","t","a","x"," ","e","x","p","e","r","t">>
      [] text = PhraseCannot ->
           <<"I"," ","c","a","n","n","o","t"," ","a","n","s","w","e","r">>

\* phrase.lower() in answer.lower()
ContainsPhrase(phrase, answer) == IsSubstring(Lower(Chars(phrase)), Lower(Chars(answer)))

\* c in answer
ContainsChar(c, answer) == c \in Range(Chars(answer))

-----------------------------------------------------------------------------
(* Idle values: what a specification leaves untouched *)

NoDecision == [intent |-> "none"]
NoResult   == [none |-> TRUE]
NoReply    == [kind |-> "unused"]
NoCalls    == [think |-> 0, embed |-> 0, search |-> 0, rerank |-> 0, generate |-> 0]

ThinkIdle == apiKey = TRUE /\ tq = <<>> /\ thist = <<>>

RankIdle == rdocs = <<>> /\ rtopk = 0 /\ rreply = NoReply /\ rout = <<>> /\ rdone = FALSE

NoChunking == [chunks |-> <<>>, raised |-> "none"]

ChunkIdle == cdoc = <<>> /\ cout = NoChunking /\ cdone = FALSE

IndexIdle ==
    /\ points = {} /\ staged = <<>> /\ stagedFrom = 0
    /\ uuidNext = 0 /\ indexLog = <<>>

Frac(n, d) == [num |-> n, den |-> d]

SearchIdle ==
    /\ sdense = <<>> /\ ssparse = NoneList /\ stopk = 0 /\ srrfk = 0
    /\ sminscore = Frac(0, 1) /\ sout = <<>> /\ sdone = FALSE

StoreIdle == ChunkIdle /\ IndexIdle /\ SearchIdle

\* The phone numbers OTPs are issued for, after normalize_phone_number.
Phones == {"2341234567890", "2349876543210"}

\* The HTTP requests that can be in progress at the same time.
Requests == {1, 2}

NotVerifying == [pc |-> "idle"]

OtpIdle ==
    /\ otpStore = [p \in Phones |-> None]
    /\ otpIssued = [p \in Phones |-> 0]
    /\ verifying = [r \in Requests |-> NotVerifying]
    /\ accepted = [p \in Phones |-> [n \in 1..MaxOtps |-> 0]]
    /\ otpCalls = 0

\* A key that step_data does not hold.
NoEntry == [absent |-> TRUE]

\* The keys handle_onboarding_step writes into step_data.
StepKeys == {"welcome", "consent", "goal", "income_type", "income_complexity", "confidence"}

NoStepData == [k \in StepKeys |-> NoEntry]

NoCall == [step |-> "none"]

OnbIdle ==
    /\ session = [status |-> "none", current_step |-> None, step_data |-> NoStepData]
    /\ profiles = <<>>
    /\ obCall = NoCall
    /\ obReturn = NoResult
    /\ obCount = 0
    /\ consented = FALSE

SessionIdle == OtpIdle /\ OnbIdle

LoopIdle == task = <<>> /\ thread = 0
IngestIdle == ingest = <<>>
LookupIdle == sessionRows = {} /\ getCall = <<>>
ConcIdle == LoopIdle /\ IngestIdle /\ LookupIdle

QueryIdle ==
    /\ pc = "off" /\ query = <<>> /\ decision = NoDecision /\ qi = 0
    /\ allChunks = <<>> /\ candidates = <<>> /\ topChunks = <<>> /\ context = <<>>
    /\ calls = NoCalls /\ searchLog = <<>> /\ raised = "none"
    /\ rerankRaised = FALSE /\ escaped = FALSE /\ result = NoResult

-----------------------------------------------------------------------------
(* SpecThink: think() called repeatedly on one query *)

InitThink ==
    /\ apiKey \in BOOLEAN
    /\ tq \in Queries
    /\ thist = <<>>
    /\ QueryIdle /\ RankIdle /\ StoreIdle /\ SessionIdle /\ ConcIdle

\* One call of think(tq); the provider, if consulted, answers with any reply.
ThinkCall ==
    /\ Len(thist) < MaxThinkCalls
    /\ \E reply \in ProviderReplies :
          LET out == Think(tq, apiKey, reply)
          IN  /\ out.providerCalls = 0 => reply.kind = "http_error"  \* reply unused: one branch
              /\ thist' = Append(thist,
                     [reply |-> IF out.providerCalls = 0 THEN NoReply ELSE reply,
                      out   |-> out])
    /\ UNCHANGED <<apiKey, tq, queryVars, rankVars, storeVars, sessionVars, concVars>>

NextThink == ThinkCall

SpecThink == InitThink /\ [][NextThink]_vars

\* A Tier-1 rule matches the query given to think().
Tier1Matches == rule_based_intent(tq)[1] # None

\* The Tier-2 reply of a history entry is one think() has to degrade on.
ReplyFails(reply) ==
    \/ reply.kind \in {"http_error", "timeout", "bad_envelope", "not_json", "json_nondict"}
    \/ /\ reply.kind = "json"
       /\ ~DecisionValid(IF reply.data.response_style \in Styles THEN reply.data
                         ELSE [reply.data EXCEPT !.response_style = "detailed"])

(* C4: for every query that matches a Tier-1 rule, every think() call returns
   (raises nothing) a decision with the rule's intent and canned response and
   response_style concise, makes no provider call, and all calls on the same
   query return the same decision. *)
C4_Tier1Canned ==
    Tier1Matches =>
        \A i \in DOMAIN thist :
            LET o == thist[i].out
                rule == rule_based_intent(tq)
            IN  /\ o.kind = "ok"
                /\ o.providerCalls = 0
                /\ o.decision.intent = rule[1]
                /\ o.decision.direct_response = rule[2]
                /\ o.decision.response_style = "concise"
                /\ \A j \in DOMAIN thist : thist[j].out = o

(* C5: when no Tier-1 rule matches and the Tier-2 provider call fails, or its
   reply is not parseable JSON, or the parsed reply fails the decision schema,
   think() raises nothing and returns intent search with search_queries equal
   to the one-element list holding the original user query. *)
C5_Tier2Degrades ==
    \A i \in DOMAIN thist :
        (~Tier1Matches /\ apiKey /\ ReplyFails(thist[i].reply)) =>
            /\ thist[i].out.kind = "ok"
            /\ thist[i].out.providerCalls = 1
            /\ thist[i].out.decision.intent = "search"
            /\ thist[i].out.decision.search_queries = SomeList(<<tq>>)

\* C5 witness: one query saw both a failed provider call and a reply failing the schema.
C5_Witness ==
    /\ ~Tier1Matches /\ apiKey
    /\ \E i, j \in DOMAIN thist :
          /\ thist[i].reply.kind = "timeout"
          /\ thist[j].reply.kind = "json" /\ ReplyFails(thist[j].reply)
          /\ thist[j].out.kind = "ok"
          /\ thist[j].out.decision.search_queries = SomeList(<<tq>>)

(* C18: every decision think() returns, on the Tier-1 path, the Tier-2 path and
   every degraded path, has an intent among search, conceptual, chitchat and
   off_topic, has search_queries exactly when the intent is search, and has a
   direct_response exactly when the intent is not search. *)
C18_DecisionShape ==
    \A i \in DOMAIN thist :
        thist[i].out.kind = "ok" =>
            LET d == thist[i].out.decision
            IN  /\ d.intent \in Intents
                /\ (d.search_queries.k = "list") <=> (d.intent = "search")
                /\ (d.direct_response # None) <=> (d.intent # "search")

-----------------------------------------------------------------------------
(* reranker.py: RerankerService.rank *)

\* documents[:15]
RERANK_MAX_DOCS == 15
\* top_k of the call in process_query (and rank()'s default)
FINAL_TOP_K == 5
\* a document that has no 'original_score' key
NoScore == -1

Min(a, b) == IF a <= b THEN a ELSE b

\* s[:n]
Take(s, n) == SubSeq(s, 1, Min(n, Len(s)))

\* s[n:]
Drop(s, n) == SubSeq(s, n + 1, Len(s))

\* A JSON value of the scores object: a number, or something float() rejects.
Num(v)  == [num |-> TRUE, v |-> v]
NotNum  == [num |-> FALSE, v |-> 0]

\* scores.get(str(i), scores.get(i, 0)), i counted from 0
ScoreFor(scores, i) == IF i \in DOMAIN scores THEN scores[i] ELSE Num(0)

\* The loop "for i, doc in enumerate(docs_to_rank)" from position i on (1-based): it
\* writes into the document dictionaries, which the caller's list shares, and stops
\* at the first value float() rejects.
RECURSIVE ApplyScores(_, _, _)
ApplyScores(docs, scores, i) ==
    IF i > Len(docs) THEN [docs |-> docs, ok |-> TRUE]
    ELSE LET kept == [docs[i] EXCEPT !.original_score = docs[i].score]
             val  == ScoreFor(scores, i - 1)
         IN  IF ~val.num
             THEN [docs |-> [docs EXCEPT ![i] = kept], ok |-> FALSE]
             ELSE ApplyScores([docs EXCEPT ![i] = [kept EXCEPT !.score = val.v]], scores, i + 1)

\* Insert d behind every element whose score is >= d's.
RECURSIVE InsertDesc(_, _)
InsertDesc(sorted, d) ==
    IF sorted = <<>> THEN <<d>>
    ELSE IF Head(sorted).score >= d.score
         THEN <<Head(sorted)>> \o InsertDesc(Tail(sorted), d)
         ELSE <<d>> \o sorted

\* Mutant of SortByScoreDesc: the list stays in the order it came in.
SortByScoreDesc_Unsorted(docs) == docs

\* sorted(docs, key=lambda x: x['score'], reverse=True): a stable sort
RECURSIVE SortByScoreDesc(_)
SortByScoreDesc(docs) ==
    IF docs = <<>> THEN <<>>
    ELSE InsertDesc(SortByScoreDesc(SubSeq(docs, 1, Len(docs) - 1)), docs[Len(docs)])

\* The except branches of rank(): documents[:top_k]
RankFallback(documents, top_k) == Take(documents, top_k)

\* The documents list as the caller sees it after the scoring loop wrote into the
\* first 15 dictionaries.
Written(documents, applied) == applied \o Drop(documents, RERANK_MAX_DOCS)

\* RerankerService.rank(query, documents, top_k) under a given provider reply
Rank(documents, top_k, reply) ==
    IF documents = <<>> THEN <<>>
    ELSE LET docs_to_rank == Take(documents, RERANK_MAX_DOCS)
         IN  IF reply.kind \in {"api_error", "timeout", "no_content", "not_json"}
             THEN RankFallback(documents, top_k)
             ELSE IF reply.kind = "json_nonobject"
             THEN \* scores.get raises for the first document, after its original_score is set
                  RankFallback(Written(documents,
                      [docs_to_rank EXCEPT ![1].original_score = docs_to_rank[1].score]), top_k)
             ELSE LET a == ApplyScores(docs_to_rank, reply.scores, 1)
                  IN  IF a.ok THEN Take(SortByScoreDesc(a.docs), top_k)
                      ELSE RankFallback(Written(documents, a.docs), top_k)

\* A document of the vector order: id i, scores non-increasing along the list.
Doc(i, score) == [id |-> i, score |-> score, original_score |-> NoScore]

\* The documents lists rank() is tried on: n documents in vector order, with
\* strictly falling scores or with all scores equal.
DocLists ==
    { [i \in 1..n |-> Doc(i, IF strict THEN MaxDocs + 1 - i ELSE 1)] :
        n \in 0..MaxDocs, strict \in BOOLEAN }

\* The replies of the scoring provider for a list of n documents.
RankReplies(n) ==
    LET m == Min(n, RERANK_MAX_DOCS)
    IN  { [kind |-> k] : k \in {"api_error", "timeout", "no_content", "not_json", "json_nonobject"} }
        \cup \* every index scored, the later the higher
        { [kind |-> "json", scores |-> [i \in 0..(n - 1) |-> Num(i % 11)]] }
        \cup \* no index scored
        { [kind |-> "json", scores |-> [i \in {} |-> Num(0)]] }
        \cup \* a single index scored
        { [kind |-> "json", scores |-> [i \in {j} |-> Num(10)]] : j \in 0..(n - 1) }
        \cup \* index j carries a value float() rejects, the indices before it are scored
        { [kind |-> "json", scores |-> [i \in 0..j |-> IF i = j THEN NotNum ELSE Num(10 - (i % 11))]] :
            j \in 0..(m - 1) }

-----------------------------------------------------------------------------
(* SpecRank: one call of rank() *)

InitRank ==
    /\ rdocs \in DocLists
    /\ rtopk \in {1, FINAL_TOP_K}
    /\ rreply = NoReply /\ rout = <<>> /\ rdone = FALSE
    /\ ThinkIdle /\ QueryIdle /\ StoreIdle /\ SessionIdle /\ ConcIdle

RankCall ==
    /\ ~rdone
    /\ \E reply \in RankReplies(Len(rdocs)) :
          /\ rreply' = reply
          /\ rout' = Rank(rdocs, rtopk, reply)
    /\ rdone' = TRUE
    /\ UNCHANGED <<rdocs, rtopk, thinkVars, queryVars, storeVars, sessionVars, concVars>>

NextRank == RankCall

SpecRank == InitRank /\ [][NextRank]_vars

\* The reply is one rank() cannot apply: the call failed or timed out, the content
\* is missing or no JSON object, or a score is not a number.
RankReplyFails(reply, n) ==
    \/ reply.kind \in {"api_error", "timeout", "no_content", "not_json", "json_nonobject"}
    \/ /\ reply.kind = "json"
       /\ \E i \in DOMAIN reply.scores : i < Min(n, RERANK_MAX_DOCS) /\ ~reply.scores[i].num

\* ids and scores of a list of documents
IdScores(docs) == [i \in DOMAIN docs |-> <<docs[i].id, docs[i].score>>]

(* C6: if the scoring provider call fails, times out or returns a reply that
   cannot be applied, rank() returns exactly the first top_k documents of its
   input, in input order and with their scores unchanged. *)
C6_RankFallbackUnchanged ==
    (rdone /\ RankReplyFails(rreply, Len(rdocs))) =>
        IdScores(rout) = IdScores(Take(rdocs, rtopk))

\* The score the provider's reply gives the document at position j (from 1) of
\* the input: the value under index j - 1, and 0 for an index the reply lacks.
ProviderScore(j) == IF (j - 1) \in DOMAIN rreply.scores THEN rreply.scores[j - 1].v ELSE 0

\* rank() got a scores object whose values for the ranked documents are numbers.
RankSucceeded ==
    rdone /\ rdocs # <<>> /\ rreply.kind = "json" /\ ~RankReplyFails(rreply, Len(rdocs))

(* C25: on a successful scoring reply rank() returns at most top_k documents,
   all drawn from the first 15 documents of its input and none twice, ordered
   by the provider's score in non-increasing order, with every index missing
   from the reply scored 0; no document left out of the answer scores higher
   than a returned one. *)
C25_RankOrdersByProviderScore ==
    RankSucceeded =>
        LET n == Min(Len(rdocs), RERANK_MAX_DOCS)
            PositionOf(d) == CHOOSE j \in 1..Len(rdocs) : rdocs[j].id = d.id
        IN  /\ Len(rout) = Min(rtopk, n)
            /\ \A i \in DOMAIN rout :
                  /\ \E j \in 1..n : rdocs[j].id = rout[i].id
                  /\ rout[i].score = ProviderScore(PositionOf(rout[i]))
                  /\ rout[i].original_score = rdocs[PositionOf(rout[i])].score
            /\ \A i, k \in DOMAIN rout : rout[i].id = rout[k].id => i = k
            /\ \A i \in 1..(Len(rout) - 1) : rout[i].score >= rout[i + 1].score
            /\ \A j \in 1..n :
                  (\A i \in DOMAIN rout : rout[i].id # rdocs[j].id)
                      => ProviderScore(j) <= rout[Len(rout)].score

\* C25 witness: sixteen documents, a reply that scores only the fourth, top_k 5:
\* the fourth document comes first and the others returned carry the score 0.
C25_Witness ==
    /\ RankSucceeded /\ Len(rdocs) = RERANK_MAX_DOCS + 1 /\ rtopk = FINAL_TOP_K
    /\ DOMAIN rreply.scores = {3}
    /\ Len(rout) = FINAL_TOP_K
    /\ rout[1].id = rdocs[4].id /\ rout[1].score = 10
    /\ rout[2].id = rdocs[1].id /\ rout[2].score = 0

-----------------------------------------------------------------------------
(* llm_service.py: generate_answer and _calculate_confidence *)

LowConfidencePhrases == {PhraseNotEnough, PhraseNotInKb, PhraseConsult, PhraseCannot}

\* LLMService._calculate_confidence(answer, context)
calculate_confidence(answer) ==
    IF \E ph \in LowConfidencePhrases : ContainsPhrase(ph, answer) THEN "low"
    ELSE IF ContainsChar("[", answer) /\ ContainsChar("]", answer) THEN "high"
    ELSE "medium"

\* answers the generation provider may write
GeneratorAnswers == {AnswerCited, AnswerPlain, AnswerNoRecords, AnswerNotEnough}

\* What the generation provider call can produce.
GenReplies ==
    { [kind |-> "http_error"], [kind |-> "error"] }
    \cup { [kind |-> "ok", answer |-> a] : a \in GeneratorAnswers }

\* LLMService.generate_answer(query, context, intent, response_style)
generate_answer(hasKey, reply) ==
    IF ~hasKey
    THEN [answer |-> NotConfiguredAnswer, confidence |-> "low"]
    ELSE IF reply.kind = "http_error"
    THEN [answer |-> HttpErrorApology, confidence |-> "low", error |-> "str(e)"]
    ELSE IF reply.kind = "error"
    THEN [answer |-> GenErrorApology, confidence |-> "low", error |-> "str(e)"]
    ELSE [answer |-> reply.answer, confidence |-> calculate_confidence(reply.answer)]

-----------------------------------------------------------------------------
(* rag_query_service.py: RAGQueryService.process_query *)

CANDIDATE_LIMIT == 25

\* how far the second full page of hits is shifted against the first
PageShift == 5

\* A search hit as VectorStore.search formats it; a metadata key that is missing
\* from the payload has the value Absent.
Hit(id, score, law, sec, child, ptext, text) ==
    [id |-> id, score |-> score, original_score |-> NoScore, text |-> text,
     law_name |-> law, section_number |-> sec, is_child |-> child, parent_text |-> ptext]

\* The points of the index a query can hit: two children of one section, a plain
\* section, and a child whose payload names neither law nor section.
ChunkPool ==
    { Hit("k1", 9, "Tax Act", "2", TRUE, "full text of section 2", "section 2, first part"),
      Hit("k2", 8, "Tax Act", "2", TRUE, "full text of section 2", "section 2, second part"),
      Hit("k3", 7, "Tax Act", "3", FALSE, Absent, "section 3"),
      Hit("k4", 6, Absent, Absent, TRUE, "full text of an unnamed section", "unnamed part") }

\* The points of a set in the order the index returns them: best score first.
RECURSIVE HitsOf(_)
HitsOf(S) ==
    IF S = {} THEN <<>>
    ELSE LET best == CHOOSE c \in S : \A d \in S : d.score <= c.score
         IN  <<best>> \o HitsOf(S \ {best})

\* What one VectorStore.search call can return (an empty list also stands for a
\* search that failed inside VectorStore.search, which returns []).
SparseResults == { HitsOf(S) : S \in { T \in SUBSET ChunkPool : Cardinality(T) <= MaxHits } }

\* A search that fills its top_k=CANDIDATE_LIMIT: the plain sections lo, lo+1, ...
\* of a large act, best score first.  The score of a hit belongs to the query:
\* the same section has another score on the page of another query.
FullPage(lo) ==
    [i \in 1..CANDIDATE_LIMIT |->
        Hit("f" \o ToString(lo + i - 1), 100 - i, "Finance Act",
            ToString(lo + i - 1), FALSE, Absent, "a section of the Finance Act")]

SearchResults == SparseResults \cup {FullPage(1), FullPage(1 + PageShift)}

\* search_queries = decision.search_queries or [query]
SearchQueries(d, q) ==
    IF d.search_queries.k = "list" /\ d.search_queries.v # <<>>
    THEN d.search_queries.v ELSE <<q>>

\* Mutant of MergeHits: every hit of every query is appended, seen or not.
MergeHits_KeepAll(all, chunks) == all \o chunks

\* "for chunk in chunks: if chunk['id'] not in seen_ids: all_chunks.append(chunk)"
RECURSIVE MergeHits(_, _)
MergeHits(all, chunks) ==
    IF chunks = <<>> THEN all
    ELSE IF \E i \in DOMAIN all : all[i].id = Head(chunks).id
         THEN MergeHits(all, Tail(chunks))
         ELSE MergeHits(Append(all, Head(chunks)), Tail(chunks))

\* metadata.get('law_name', 'Unknown Law'), metadata.get('section_number', '')
LawName(c)       == IF c.law_name = Absent THEN "Unknown Law" ELSE c.law_name
SectionNumber(c) == IF c.section_number = Absent THEN "" ELSE c.section_number

\* parent_id = f"{law_name}_{section_number}"
ParentId(c) == <<LawName(c), "_", SectionNumber(c)>>

\* _format_chunks_for_context from chunk i on: one block per chunk that is kept
RECURSIVE FormatFrom(_, _, _)
FormatFrom(chunks, i, seen_parent_ids) ==
    IF i > Len(chunks) THEN <<>>
    ELSE LET c   == chunks[i]
             pid == ParentId(c)
         IN  IF c.is_child /\ c.parent_text # Absent
             THEN IF pid \in seen_parent_ids /\ pid # <<"Unknown Law", "_", "">>
                  THEN FormatFrom(chunks, i + 1, seen_parent_ids)
                  ELSE <<[label |-> i, chunk |-> c.id, law_name |-> LawName(c),
                          section_number |-> SectionNumber(c),
                          content |-> c.parent_text, full_section |-> TRUE]>>
                       \o FormatFrom(chunks, i + 1, seen_parent_ids \cup {pid})
             ELSE <<[label |-> i, chunk |-> c.id, law_name |-> LawName(c),
                     section_number |-> SectionNumber(c),
                     content |-> c.text, full_section |-> FALSE]>>
                  \o FormatFrom(chunks, i + 1, seen_parent_ids)

\* Mutant of format_chunks_for_context: every chunk contributes its own fragment.
format_chunks_for_context_Fragments(chunks) ==
    [i \in DOMAIN chunks |->
        [label |-> i, chunk |-> chunks[i].id, law_name |-> LawName(chunks[i]),
         section_number |-> SectionNumber(chunks[i]),
         content |-> chunks[i].text, full_section |-> FALSE]]

\* Mutant of format_chunks_for_context: the blocks are numbered as they come,
\* so a skipped child moves the labels of the blocks after it.
format_chunks_for_context_Renumbered(chunks) ==
    LET parts == FormatFrom(chunks, 1, {})
    IN  [i \in DOMAIN parts |-> [parts[i] EXCEPT !.label = i]]

\* RAGQueryService._format_chunks_for_context(chunks)
format_chunks_for_context(chunks) ==
    LET parts == FormatFrom(chunks, 1, {})
    IN  IF parts = <<>>
        THEN [i \in DOMAIN chunks |->
                 [label |-> 0, chunk |-> chunks[i].id, law_name |-> "", section_number |-> "",
                  content |-> chunks[i].text, full_section |-> FALSE]]
        ELSE parts

\* RAGQueryService._extract_citations(chunks)
extract_citations(chunks) ==
    [i \in DOMAIN chunks |->
        [law_name       |-> LawName(chunks[i]),
         section_number |-> IF chunks[i].section_number = Absent THEN None
                            ELSE chunks[i].section_number,
         score          |-> chunks[i].score]]

\* The dictionaries process_query returns.
DirectResult(d) ==
    [answer |-> d.direct_response, citations |-> <<>>, confidence |-> "high",
     intent |-> d.intent, retrieved_chunks |-> 0, chunk_scores |-> <<>>]

\* Mutant of InsufficientResult: the sentence of the other empty-result return.
InsufficientResult_OtherSentence(intent) ==
    [answer |-> InsufficientAfterRerank, citations |-> <<>>, confidence |-> "low",
     intent |-> intent, retrieved_chunks |-> 0]

InsufficientResult(intent) ==
    [answer |-> InsufficientSentence, citations |-> <<>>, confidence |-> "low",
     intent |-> intent, retrieved_chunks |-> 0]

EmptyRerankResult(intent) ==
    [answer |-> InsufficientAfterRerank, citations |-> <<>>, confidence |-> "low",
     intent |-> intent, retrieved_chunks |-> 0]

AnswerResult(answer_result, top, intent) ==
    [answer |-> answer_result.answer, citations |-> extract_citations(top),
     confidence |-> answer_result.confidence, intent |-> intent,
     retrieved_chunks |-> Len(top),
     chunk_scores |-> [i \in DOMAIN top |-> top[i].score]]

ErrorResult ==
    [answer |-> ErrorApology, citations |-> <<>>, confidence |-> "low",
     intent |-> "error", retrieved_chunks |-> 0, error |-> "str(e)"]

\* The stages of process_query a call of which can raise.
Stages == {"planner", "embedding", "search", "reranker", "generator", "assembly"}

\* The intents process_query answers without retrieval (lines 112 and 122).
ShortCircuits(intent) == intent \in {"clarify", "chitchat", "direct_answer"}

\* Mutant of NoCandidates: a single candidate also counts as none.
NoCandidates_OneIsNone(c) == Len(c) <= 1

\* "if not candidate_chunks" (lines 164 and 177)
NoCandidates(c) == c = <<>>

\* Mutant of InOuterTry: the try block opens after the planner call.
InOuterTry_AfterPlanner(stage) == stage \in Stages \ {"planner"}

\* The statements inside "try: ... except Exception" of process_query (lines 106-232).
InOuterTry(stage) == stage \in Stages

\* The statement inside the inner try of lines 189-194.
InInnerTry(stage) == stage = "reranker"

\* An exception raised by a call of the given stage, as process_query handles it.
HandleRaise(stage) ==
    /\ raised' = stage
    /\ pc' = "done"
    /\ IF InOuterTry(stage)
       THEN result' = ErrorResult /\ escaped' = FALSE
       ELSE result' = NoResult /\ escaped' = TRUE

Bump(c, who) == [c EXCEPT ![who] = @ + 1]

InitQuery ==
    /\ apiKey \in BOOLEAN
    /\ query \in Queries
    /\ pc = "think" /\ decision = NoDecision /\ qi = 0
    /\ allChunks = <<>> /\ candidates = <<>> /\ topChunks = <<>> /\ context = <<>>
    /\ calls = NoCalls /\ searchLog = <<>> /\ raised = "none"
    /\ rerankRaised = FALSE /\ escaped = FALSE /\ result = NoResult
    /\ tq = <<>> /\ thist = <<>> /\ RankIdle /\ StoreIdle /\ SessionIdle /\ ConcIdle

\* Lines 108-135: the planner call and the dispatch on its intent.
PQ_Think ==
    /\ pc = "think"
    /\ calls' = Bump(calls, "think")
    /\ \E reply \in ProviderReplies :
          LET out == Think(query, apiKey, reply)
          IN  /\ out.providerCalls = 0 => reply.kind = "http_error"
              /\ IF out.kind = "raise"
                 THEN HandleRaise("planner") /\ UNCHANGED <<decision, qi>>
                 ELSE /\ decision' = out.decision
                      /\ IF ShortCircuits(out.decision.intent)
                         THEN /\ result' = DirectResult(out.decision)
                              /\ pc' = "done" /\ qi' = 0
                         ELSE /\ result' = NoResult
                              /\ pc' = "search" /\ qi' = 1
                      /\ UNCHANGED <<raised, escaped>>
    /\ UNCHANGED <<apiKey, query, allChunks, candidates, topChunks, context,
                   searchLog, rerankRaised, tq, thist, rankVars,
                   storeVars, sessionVars, concVars>>

\* Lines 144-162: one pass of "for q in search_queries", and after the last pass
\* the sort and the cut to CANDIDATE_LIMIT.  The embedding service and the
\* vector store are modelled by their interface, as test_end_to_end.py stubs
\* them: a call returns or raises.  With the repository's own EmbeddingService
\* the vector_store property (lines 63-70) takes len() of the coroutine that the
\* un-awaited embed_text returns, which is the outcome "the search stage raises".
PQ_Search ==
    /\ pc = "search"
    /\ LET qs == SearchQueries(decision, query)
       IN  \/ /\ calls' = Bump(calls, "embed")
              /\ HandleRaise("embedding")
              /\ UNCHANGED <<qi, allChunks, candidates, searchLog>>
           \/ /\ calls' = Bump(Bump(calls, "embed"), "search")
              /\ HandleRaise("search")
              /\ UNCHANGED <<qi, allChunks, candidates, searchLog>>
           \/ \E chunks \in SearchResults :
                LET all == MergeHits(allChunks, chunks)
                    cut == Take(SortByScoreDesc(all), CANDIDATE_LIMIT)
                IN  /\ calls' = Bump(Bump(calls, "embed"), "search")
                    /\ searchLog' = Append(searchLog,
                           [q |-> qs[qi], hits |-> Len(chunks), fallback |-> FALSE,
                            chunks |-> chunks])
                    /\ allChunks' = all
                    /\ IF qi < Len(qs)
                       THEN /\ qi' = qi + 1 /\ pc' = "search"
                            /\ UNCHANGED candidates
                       ELSE /\ qi' = qi
                            /\ candidates' = cut
                            /\ pc' = IF NoCandidates(cut) THEN "fallback" ELSE "rerank"
                    /\ UNCHANGED <<raised, escaped, result>>
    /\ UNCHANGED <<apiKey, query, decision, topChunks, context, rerankRaised,
                   tq, thist, rankVars,
                   storeVars, sessionVars, concVars>>

\* Lines 164-184: the fallback search with the original query.
PQ_Fallback ==
    /\ pc = "fallback"
    /\ \/ /\ calls' = Bump(calls, "embed")
          /\ HandleRaise("embedding")
          /\ UNCHANGED <<candidates, searchLog>>
       \/ /\ calls' = Bump(Bump(calls, "embed"), "search")
          /\ HandleRaise("search")
          /\ UNCHANGED <<candidates, searchLog>>
       \/ \E chunks \in SearchResults :
            /\ calls' = Bump(Bump(calls, "embed"), "search")
            /\ searchLog' = Append(searchLog,
                   [q |-> query, hits |-> Len(chunks), fallback |-> TRUE,
                    chunks |-> chunks])
            /\ candidates' = chunks
            /\ IF NoCandidates(chunks)
               THEN result' = InsufficientResult(decision.intent) /\ pc' = "done"
               ELSE result' = NoResult /\ pc' = "rerank"
            /\ UNCHANGED <<raised, escaped>>
    /\ UNCHANGED <<apiKey, query, decision, qi, allChunks, topChunks, context,
                   rerankRaised, tq, thist, rankVars,
                   storeVars, sessionVars, concVars>>

\* The scoring replies tried inside process_query.
PipelineRankReplies(n) ==
    { r \in RankReplies(n) :
        \/ r.kind \in {"api_error", "json_nonobject"}
        \/ r.kind = "json" /\ DOMAIN r.scores \in {0..(n - 1), 0..1} }

\* Lines 186-205: the reranker call, its fallback and the empty-result return.
PQ_Rerank ==
    /\ pc = "rerank"
    /\ calls' = Bump(calls, "rerank")
    /\ \E out \in {[kind |-> "raise"]} \cup PipelineRankReplies(Len(candidates)) :
          LET top == IF out.kind = "raise"
                     THEN Take(candidates, FINAL_TOP_K)
                     ELSE Rank(candidates, FINAL_TOP_K, out)
          IN  /\ rerankRaised' = (out.kind = "raise")
              /\ IF out.kind = "raise" /\ ~InInnerTry("reranker")
                 THEN HandleRaise("reranker") /\ UNCHANGED topChunks
                 ELSE /\ topChunks' = top
                      /\ IF top = <<>>
                         THEN result' = EmptyRerankResult(decision.intent) /\ pc' = "done"
                         ELSE result' = NoResult /\ pc' = "generate"
                      /\ UNCHANGED <<raised, escaped>>
    /\ UNCHANGED <<apiKey, query, decision, qi, allChunks, candidates, context,
                   searchLog, tq, thist, rankVars,
                   storeVars, sessionVars, concVars>>

\* Lines 207-230: context, generation, citations and the returned dictionary.
PQ_Generate ==
    /\ pc = "generate"
    /\ context' = format_chunks_for_context(topChunks)
    /\ calls' = Bump(calls, "generate")
    /\ \/ HandleRaise("generator")
       \/ HandleRaise("assembly")
       \/ \E reply \in GenReplies :
            /\ (~apiKey) => reply.kind = "http_error"
            /\ result' = AnswerResult(generate_answer(apiKey, reply), topChunks,
                                      decision.intent)
            /\ pc' = "done"
            /\ UNCHANGED <<raised, escaped>>
    /\ UNCHANGED <<apiKey, query, decision, qi, allChunks, candidates, topChunks,
                   searchLog, rerankRaised, tq, thist, rankVars,
                   storeVars, sessionVars, concVars>>

NextQuery == PQ_Think \/ PQ_Search \/ PQ_Fallback \/ PQ_Rerank \/ PQ_Generate

SpecQuery == InitQuery /\ [][NextQuery]_vars

-----------------------------------------------------------------------------
(* Claims about process_query *)

(* C1 as stated: process_query never lets an exception reach its caller, and
   whatever stage's call raises (planner, embedding, index search, reranker,
   generator, result assembly), the returned result has confidence low and the
   apology as answer. *)
C1_EveryFailureIsApology ==
    /\ ~escaped
    /\ (pc = "done" /\ (raised # "none" \/ rerankRaised)) =>
          /\ result.confidence = "low"
          /\ result.answer \in {ErrorApology, HttpErrorApology, GenErrorApology,
                                NotConfiguredAnswer}

(* C1 amended: process_query never lets an exception reach its caller; an
   exception raised by the planner, an embedding call, the index search, the
   generator or the result assembly yields confidence low and the apology; an
   exception raised by the reranker call is absorbed instead: the first
   FINAL_TOP_K candidates in vector order become the top chunks and the
   pipeline goes on. *)
C1_FailuresHandled ==
    /\ ~escaped
    /\ (pc = "done" /\ raised # "none") =>
          /\ raised # "reranker"
          /\ result.confidence = "low"
          /\ result.answer = ErrorApology
    /\ (rerankRaised /\ raised = "none") =>
          /\ topChunks = Take(candidates, FINAL_TOP_K)
          /\ pc \in {"generate", "done"}

\* C1 witness: the reranker call raised and was absorbed, generation was reached,
\* and the generator call raised and became the apology.
C1_Witness ==
    /\ pc = "done" /\ rerankRaised /\ raised = "generator"
    /\ calls.generate = 1
    /\ result.confidence = "low" /\ result.answer = ErrorApology

(* C2: retrieval happens only for intent search; for every other intent of the
   decision (conceptual, chitchat, off_topic) process_query returns the
   planner's direct_response at once and makes no embedding, index, reranker
   or generator call. *)
C2_OnlySearchRetrieves ==
    (decision.intent \in Intents \ {"search"}) =>
        /\ pc = "done"
        /\ result.answer = decision.direct_response
        /\ calls.embed = 0 /\ calls.search = 0
        /\ calls.rerank = 0 /\ calls.generate = 0

\* Every search of this execution found nothing, the fallback search included.
AllSearchesEmpty ==
    /\ searchLog # <<>>
    /\ searchLog[Len(searchLog)].fallback
    /\ \A i \in DOMAIN searchLog : searchLog[i].hits = 0

(* C3: when the searches for all planner queries and the fallback search with
   the original query all return zero candidates, process_query returns
   confidence low, the fixed insufficient-information sentence and no
   citations, and calls neither the reranker nor the generator. *)
C3_EmptyRetrieval ==
    AllSearchesEmpty =>
        /\ pc = "done"
        /\ result.confidence = "low"
        /\ result.answer = InsufficientSentence
        /\ result.citations = <<>>
        /\ calls.rerank = 0 /\ calls.generate = 0

\* C3 witness: two planner queries and the fallback all came back empty.
C3_Witness ==
    /\ AllSearchesEmpty /\ Len(searchLog) = 3
    /\ searchLog[3].q = query
    /\ pc = "done" /\ result.answer = InsufficientSentence

\* process_query returned the result of a generation.
Generated == pc = "done" /\ raised = "none" /\ calls.generate = 1

\* A child chunk that carries its parent's full section text.
HasParent(c) == c.is_child /\ c.parent_text # Absent

\* Two children of the same (law_name, section_number).
Siblings(c, d) ==
    /\ c.id # d.id /\ HasParent(c) /\ HasParent(d)
    /\ LawName(c) = LawName(d) /\ SectionNumber(c) = SectionNumber(d)

\* chunk.get(key): None for a key the payload lacks.
PayloadGet(v) == IF v = Absent THEN None ELSE v

CitationsOf(c) ==
    { n \in DOMAIN result.citations :
        /\ result.citations[n].law_name = LawName(c)
        /\ result.citations[n].section_number = PayloadGet(c.section_number) }

(* C13: when the final ranked chunks hold several children of the same
   (law_name, section_number), the context given to the generator holds the
   parent's full section text exactly once and none of the fragments, and the
   result carries at most one citation for that section. *)
C13_ParentOnceOneCitation ==
    Generated =>
        \A i, j \in DOMAIN topChunks :
            Siblings(topChunks[i], topChunks[j]) =>
                /\ Cardinality({ b \in DOMAIN context :
                                   context[b].content = topChunks[i].parent_text }) = 1
                /\ \A b \in DOMAIN context :
                      context[b].content \notin {topChunks[i].text, topChunks[j].text}
                /\ Cardinality(CitationsOf(topChunks[i])) <= 1

\* The six fields of a well-formed result.
ResultFields ==
    {"answer", "citations", "confidence", "intent", "retrieved_chunks", "chunk_scores"}

(* C14: every result process_query returns, on every path (short-circuit,
   empty retrieval, empty rerank output, generation, caught exception), has
   the six fields answer, citations, confidence, intent, retrieved chunk count
   and per-chunk scores. *)
C14_ResultHasSixFields ==
    (pc = "done" /\ ~escaped) => ResultFields \subseteq DOMAIN result

\* What the context holds for a chunk that is not skipped.
ContentFor(c) == IF HasParent(c) THEN c.parent_text ELSE c.text

(* C15: when generation is reached, the chunk at position 1 of the ranked
   chunks is in the context given to the generator, as its own text or as its
   parent's full section text when it has one, and the first citation of the
   result carries that chunk's section_number. *)
C15_TopChunkCited ==
    Generated =>
        /\ topChunks # <<>> /\ context # <<>>
        /\ context[1].chunk = topChunks[1].id
        /\ context[1].content = ContentFor(topChunks[1])
        /\ result.citations[1].section_number = PayloadGet(topChunks[1].section_number)

\* C15 witness: the reranker moved the chunk of section 3 ahead of a child of
\* section 2, and section 3 is the first citation.
C15_Witness ==
    /\ Generated /\ ~rerankRaised
    /\ Len(topChunks) = 2
    /\ topChunks[1].id = "k3" /\ topChunks[2].id = "k1"
    /\ context[1].content = "section 3"
    /\ context[2].content = "full text of section 2"
    /\ result.citations[1].section_number = "3"

\* The refusal sentence of rule 2 of the search prompt (llm_service.py line 57)
\* among the answers the provider writes.
PromptRefusals == {AnswerNoRecords}

\* The answer of the result is the text the generation provider wrote.
ProviderAnswered == Generated /\ apiKey /\ result.answer \in GeneratorAnswers

(* C17: the confidence of a generated answer is low when the answer contains a
   refusal phrase (before any look at citation markers), otherwise high when it
   contains "[" and "]", otherwise medium; in particular an answer that is a
   refusal sentence of the search prompt has confidence low. *)
C17_RefusalIsLow ==
    ProviderAnswered =>
        /\ (\E ph \in LowConfidencePhrases : ContainsPhrase(ph, result.answer))
              => result.confidence = "low"
        /\ result.confidence = "high"
              => ContainsChar("[", result.answer) /\ ContainsChar("]", result.answer)
        /\ result.answer \in PromptRefusals => result.confidence = "low"

\* No fallback search was issued: the candidates are the merged planner results.
PlannerPath == \A j \in DOMAIN searchLog : ~searchLog[j].fallback

\* The hit with this id as the first search that returned it delivered it.
FirstSeen(id) ==
    LET j == CHOOSE k \in DOMAIN searchLog :
                 /\ \E h \in DOMAIN searchLog[k].chunks : searchLog[k].chunks[h].id = id
                 /\ \A l \in 1..(k - 1) :
                        \A h \in DOMAIN searchLog[l].chunks : searchLog[l].chunks[h].id # id
        h == CHOOSE x \in DOMAIN searchLog[j].chunks : searchLog[j].chunks[x].id = id
    IN  searchLog[j].chunks[h]

(* C23: after the results of all planner queries are merged, the candidate list
   handed to the reranker contains each chunk id at most once, namely the hit
   of the first query that returned it, is in non-increasing vector-score
   order, and has at most CANDIDATE_LIMIT = 25 entries. *)
C23_CandidatesMerged ==
    (pc = "rerank" /\ PlannerPath) =>
        /\ \A i, j \in DOMAIN candidates :
               candidates[i].id = candidates[j].id => i = j
        /\ \A i \in DOMAIN candidates : candidates[i] = FirstSeen(candidates[i].id)
        /\ \A i \in 1..(Len(candidates) - 1) :
               candidates[i].score >= candidates[i + 1].score
        /\ Len(candidates) <= CANDIDATE_LIMIT

\* C23 witness: two planner queries each returned a full page, the pages share
\* sections under different scores, the merged list is out of score order and
\* longer than the limit, and the cut list reached the reranker.
C23_Witness ==
    /\ pc = "rerank" /\ PlannerPath /\ Len(searchLog) = 2
    /\ \E a \in DOMAIN searchLog[1].chunks, b \in DOMAIN searchLog[2].chunks :
          /\ searchLog[1].chunks[a].id = searchLog[2].chunks[b].id
          /\ searchLog[1].chunks[a].score # searchLog[2].chunks[b].score
    /\ Len(allChunks) > CANDIDATE_LIMIT
    /\ \E i \in 1..(Len(allChunks) - 1) : allChunks[i].score < allChunks[i + 1].score
    /\ Len(candidates) = CANDIDATE_LIMIT

\* The positions of the fallback searches in the log of index searches.
FallbackEntries == { j \in DOMAIN searchLog : searchLog[j].fallback }

\* The searches of all planner queries returned and none of them found a hit.
PlannerSearchesEmpty ==
    /\ decision # NoDecision
    /\ Len(searchLog) >= Len(SearchQueries(decision, query))
    /\ \A j \in 1..Len(SearchQueries(decision, query)) : searchLog[j].hits = 0

(* C24: during one process_query execution the fallback search with the
   original, unmodified user query is issued when and only when the merged
   candidate set of the planner queries is empty, and then exactly once; no
   further search is issued after it.  (An execution that an exception ends
   issues no call after the exception.) *)
C24_FallbackOnce ==
    /\ Cardinality(FallbackEntries) <= 1
    /\ \A j \in FallbackEntries :
          /\ j = Len(SearchQueries(decision, query)) + 1
          /\ \A l \in 1..(j - 1) : searchLog[l].hits = 0 /\ ~searchLog[l].fallback
          /\ searchLog[j].q = query
          /\ j = Len(searchLog) /\ calls.search = j
    /\ (PlannerSearchesEmpty /\ raised = "none" /\ pc \in {"rerank", "generate", "done"})
          => FallbackEntries # {}

\* C24 witness: two planner queries other than the user's found nothing, the
\* fallback search with the user's query found hits, and the execution went on
\* to its end without another search.
C24_Witness ==
    /\ pc = "done" /\ raised = "none"
    /\ Len(searchLog) = 3 /\ FallbackEntries = {3}
    /\ searchLog[1].q # query /\ searchLog[2].q # query
    /\ searchLog[3].q = query /\ searchLog[3].hits > 0
    /\ calls.search = 3 /\ calls.generate = 1

(* C28: in every successful search result, each context block labelled [i]
   that is passed to the generator and the i-th entry of the returned citations
   list derive from the same ranked chunk, also when duplicate children were
   skipped in the context. *)
C28_LabelsMatchCitations ==
    Generated =>
        \A b \in DOMAIN context :
            context[b].label >= 1 =>
                /\ context[b].label \in DOMAIN result.citations
                /\ context[b].label \in DOMAIN topChunks
                /\ context[b].chunk = topChunks[context[b].label].id
                /\ context[b].content = ContentFor(topChunks[context[b].label])
                /\ result.citations[context[b].label].law_name = context[b].law_name
                /\ result.citations[context[b].label].section_number
                      = PayloadGet(topChunks[context[b].label].section_number)
                /\ result.citations[context[b].label].score
                      = topChunks[context[b].label].score

\* C28 witness: the second ranked chunk is a child whose parent section is
\* already in the context, it is skipped, and the block of the third ranked
\* chunk, second in the context, is labelled [3].
C28_Witness ==
    /\ Generated /\ Len(topChunks) >= 3
    /\ Siblings(topChunks[1], topChunks[2])
    /\ Len(context) = Len(topChunks) - 1
    /\ context[2].label = 3 /\ context[2].chunk = topChunks[3].id
    /\ result.citations[3].law_name = LawName(topChunks[3])

-----------------------------------------------------------------------------
(* document_processor.py: chunk_by_legal_sections

   A text is modelled by its pieces: maximal runs of characters without white
   space that matters to the chunker.  A piece records its length, whether it
   ends with sentence punctuation ([.!?]) and the number of white-space
   characters that follow it (sep: 1 for a space or a newline, 2 or more when
   blank lines follow).  Lengths, strip(), '\n'.join, ' '.join, the sentence
   split and the paragraph split are computed on this representation with
   the thresholds of the source. *)

MIN_SECTION_CHARS == 10
MIN_PARAGRAPH_CHARS == 20
SPLIT_MIN_CHARS == 1000
max_chunk_size == 2000
min_chunks_for_large_doc == 10
LARGE_DOC_CHARS == 20000
MERGE_MIN_CHARS == 50
FORCE_SPLIT_DOC_CHARS == 10000
FORCE_SPLIT_CHUNK_SIZE == 1500

Piece(len, stop) == [len |-> len, stop |-> stop, sep |-> 0]

\* str.strip() of a text that starts with a piece: the trailing white space goes.
TStrip(T) == IF T = <<>> THEN T ELSE [T EXCEPT ![Len(T)].sep = 0]

RECURSIVE SumPieces(_, _)
SumPieces(T, i) ==
    IF i > Len(T) THEN 0 ELSE T[i].len + T[i].sep + SumPieces(T, i + 1)

\* len(text)
TLen(T) == SumPieces(T, 1)

\* a + sep * white space + b
JoinWith(a, b, sep) ==
    IF a = <<>> THEN b ELSE [a EXCEPT ![Len(a)].sep = sep] \o b

\* '\n'.join(lines + [line]) from '\n'.join(lines), for a non-empty list of lines
AppendLine(T, line) ==
    IF T = <<>> THEN line.pieces
    ELSE [T EXCEPT ![Len(T)].sep = @ + 1] \o line.pieces

RECURSIVE JoinLines(_, _)
JoinLines(lines, i) ==
    IF i = 0 THEN <<>> ELSE AppendLine(JoinLines(lines, i - 1), lines[i])

\* markdown_content.strip() for the document made of the given lines
DocText(lines) == TStrip(JoinLines(lines, Len(lines)))

\* re.split(r'(?<=[.!?])\s+', text): the text is cut after every piece that
\* ends a sentence and is followed by white space.
RECURSIVE SplitAt(_, _, _, _)
SplitAt(T, i, cur, cuts) ==
    IF i > Len(T) THEN <<cur>>
    ELSE LET now == Append(cur, T[i])
         IN  IF i < Len(T) /\ cuts[i]
             THEN <<TStrip(now)>> \o SplitAt(T, i + 1, <<>>, cuts)
             ELSE SplitAt(T, i + 1, now, cuts)

SplitSentences(T) ==
    SplitAt(T, 1, <<>>, [i \in DOMAIN T |-> T[i].stop /\ T[i].sep > 0])

\* re.split(r'\n\s*\n+', text): the text is cut at every blank line.
SplitParagraphs(T) ==
    SplitAt(T, 1, <<>>, [i \in DOMAIN T |-> T[i].sep >= 2])

\* ' '.join(sentences)
RECURSIVE JoinSpaces(_, _)
JoinSpaces(sents, i) ==
    IF i = 0 THEN <<>>
    ELSE IF i = 1 THEN sents[1]
    ELSE JoinWith(JoinSpaces(sents, i - 1), sents[i], 1)

\* The sentence-packing loop (lines 243-273, 288-317, 365-398, 418-450 and
\* 479-509): sentences are gathered until the next one would pass max_size.
RECURSIVE Pack(_, _, _, _, _)
Pack(sents, i, cur, size, max_size) ==
    IF i > Len(sents)
    THEN IF cur # <<>> THEN <<JoinSpaces(cur, Len(cur))>> ELSE <<>>
    ELSE LET n == TLen(sents[i])
         IN  IF size + n > max_size /\ cur # <<>>
             THEN <<JoinSpaces(cur, Len(cur))>> \o Pack(sents, i + 1, <<sents[i]>>, n, max_size)
             ELSE Pack(sents, i + 1, Append(cur, sents[i]), size + n, max_size)

SplitBySize(T, max_size) == Pack(SplitSentences(T), 1, <<>>, 0, max_size)

Chunk(type, T) == [chunk_type |-> type, text |-> T]

Typed(type, texts) == [i \in DOMAIN texts |-> Chunk(type, texts[i])]

RECURSIVE Flatten(_, _)
Flatten(lists, i) ==
    IF i > Len(lists) THEN <<>> ELSE lists[i] \o Flatten(lists, i + 1)

SelectTexts(texts, min_len) == SelectSeq(texts, LAMBDA p : p # <<>> /\ TLen(p) > min_len)

\* "if section_text and len(section_text) > 10" (lines 130 and 197)
SectionKept(T) == T # <<>> /\ TLen(T) > MIN_SECTION_CHARS

\* Lines 127-141 and 194-208: the section gathered so far becomes a chunk.
SaveSection(st) ==
    IF st.current_section /\ st.current_content # <<>>
       /\ SectionKept(TStrip(st.current_content))
    THEN Append(st.chunks, Chunk("legal_section", TStrip(st.current_content)))
    ELSE st.chunks

\* Lines 105-192: one line of the scan loop.
ScanLine(st, line) ==
    IF line.kind = "blank"
    THEN IF st.current_content # <<>>
         THEN [st EXCEPT !.current_content = AppendLine(@, line)]
         ELSE st
    ELSE IF line.kind = "header"
    THEN [st EXCEPT !.section_found = TRUE,
                    !.chunks = SaveSection(st),
                    !.current_section = TRUE,
                    !.current_content = line.pieces]
    ELSE IF st.current_section
    THEN [st EXCEPT !.current_content = AppendLine(@, line)]
    ELSE IF st.chunks = <<>> \/ st.chunks[Len(st.chunks)].chunk_type # "preamble"
    THEN [st EXCEPT !.chunks = Append(@, Chunk("preamble", line.pieces))]
    ELSE [st EXCEPT !.chunks[Len(st.chunks)].text = JoinWith(@, line.pieces, 1)]

RECURSIVE ScanLines(_, _)
ScanLines(lines, i) ==
    IF i = 0
    THEN [chunks |-> <<>>, current_section |-> FALSE, current_content |-> <<>>,
          section_found |-> FALSE]
    ELSE ScanLine(ScanLines(lines, i - 1), lines[i])

\* Mutant of UseParagraphs: the paragraph split is taken whenever it is tried.
UseParagraphs_Always(paragraphs) == TRUE

\* "if len(paragraphs) > 1" (line 218)
UseParagraphs(paragraphs) == Len(paragraphs) > 1

\* Lines 211-343: the fallback ladder, given the chunks of the scan.
FallbackChunks(text, chunks) ==
    LET paragraphs == SelectTexts(SplitParagraphs(text), MIN_PARAGRAPH_CHARS)
    IN  IF UseParagraphs(paragraphs)
        THEN Typed("paragraph", paragraphs)
        ELSE IF TLen(text) > max_chunk_size
        THEN chunks \o Typed("sentence_based", SplitBySize(text, max_chunk_size))
        ELSE IF TLen(text) > SPLIT_MIN_CHARS
        THEN LET split == Typed("size_split_fallback", SplitBySize(text, max_chunk_size))
             IN  IF Len(split) > 1 THEN split ELSE <<Chunk("full_document", text)>>
        ELSE <<Chunk("full_document", text)>>

\* Lines 356-402 and 408-455: every chunk longer than max_chunk_size is split
\* by sentences; the others are kept.
SplitLarge(chunks) ==
    Flatten([i \in DOMAIN chunks |->
                IF TLen(chunks[i].text) > max_chunk_size
                THEN Typed("size_split", SplitBySize(chunks[i].text, max_chunk_size))
                ELSE <<chunks[i]>>], 1)

\* Lines 352-405
ForceSplitLargeDoc(total, chunks) ==
    IF total > LARGE_DOC_CHARS /\ Len(chunks) < min_chunks_for_large_doc
    THEN SplitLarge(chunks)
    ELSE chunks

\* "and cleaned_chunks" (line 461)
HasPrevious(cleaned) == cleaned # <<>>

\* Lines 458-466: chunks shorter than 50 characters join the chunk before them.
\* The result is [chunks, raised]: cleaned_chunks[-1] of an empty list raises.
RECURSIVE MergeSmall(_, _)
MergeSmall(chunks, i) ==
    IF i = 0 THEN [chunks |-> <<>>, raised |-> "none"]
    ELSE LET acc == MergeSmall(chunks, i - 1)
             cleaned == acc.chunks
         IN  IF acc.raised # "none" THEN acc
             ELSE IF TLen(TStrip(chunks[i].text)) < MERGE_MIN_CHARS /\ HasPrevious(cleaned)
             THEN IF cleaned = <<>>
                  THEN [acc EXCEPT !.raised = "IndexError"]
                  ELSE [acc EXCEPT !.chunks[Len(cleaned)].text =
                                        JoinWith(@, chunks[i].text, 2)]
             ELSE [acc EXCEPT !.chunks = Append(cleaned, chunks[i])]

CleanUp(chunks) ==
    IF Len(chunks) > 1 THEN MergeSmall(chunks, Len(chunks))
    ELSE [chunks |-> chunks, raised |-> "none"]

\* Lines 469-512
FinalForceSplit(total, chunks) ==
    IF total > FORCE_SPLIT_DOC_CHARS /\ Len(chunks) = 1
    THEN Typed("force_split", SplitBySize(chunks[1].text, FORCE_SPLIT_CHUNK_SIZE))
    ELSE chunks

\* chunk_by_legal_sections(markdown_content, metadata) for the document made of
\* the given lines: [chunks, raised].
chunk_by_legal_sections(lines) ==
    LET scanned == ScanLines(lines, Len(lines))
        sections == SaveSection(scanned)
        text == DocText(lines)
        total == TLen(text)
        first == IF ~scanned.section_found \/ sections = <<>>
                 THEN FallbackChunks(text, sections)
                 ELSE sections
        cleaned == CleanUp(SplitLarge(ForceSplitLargeDoc(total, first)))
    IN  IF cleaned.raised # "none" THEN [chunks |-> <<>>, raised |-> cleaned.raised]
        ELSE [chunks |-> FinalForceSplit(total, cleaned.chunks), raised |-> "none"]

-----------------------------------------------------------------------------
(* Specification SpecChunk: chunk_by_legal_sections applied to documents of at
   most MaxLines lines.  The lines are blank lines, section headers and text
   lines whose lengths lie on both sides of every threshold of the chunker. *)

BlankLine == [kind |-> "blank", pieces |-> <<>>]

\* "Section 1"
HeaderLine == [kind |-> "header", pieces |-> <<Piece(9, FALSE)>>]

TextLine(pieces) == [kind |-> "text", pieces |-> pieces]

LineLengths == {4, 25, 60, 1200, 2500, 11000}

Lines ==
    {BlankLine, HeaderLine}
    \cup { TextLine(<<Piece(n, TRUE)>>) : n \in LineLengths }
    \cup { TextLine(<<[Piece(1200, TRUE) EXCEPT !.sep = 1], Piece(1200, TRUE)>>),
           TextLine(<<Piece(2500, FALSE)>>) }

Documents == UNION { [1..n -> Lines] : n \in 0..MaxLines }

InitChunk ==
    /\ cdoc \in Documents
    /\ cout = NoChunking
    /\ cdone = FALSE
    /\ ThinkIdle /\ QueryIdle /\ RankIdle /\ IndexIdle /\ SearchIdle /\ SessionIdle /\ ConcIdle

ChunkCall ==
    /\ ~cdone
    /\ cout' = chunk_by_legal_sections(cdoc)
    /\ cdone' = TRUE
    /\ UNCHANGED <<cdoc, thinkVars, queryVars, rankVars, indexVars, searchVars, sessionVars, concVars>>

NextChunk == ChunkCall

SpecChunk == InitChunk /\ [][NextChunk]_vars

(* C10: chunk_by_legal_sections returns a non-empty list of chunks and raises
   nothing for every input text: the empty text, a text without headers, a
   text whose sections are only a few characters long. *)
C10_ChunkerNeverEmpty ==
    cdone => /\ cout.raised = "none"
             /\ cout.chunks # <<>>

\* C10 witness: the empty text, chunked into the single full_document chunk.
C10_Witness ==
    /\ cdone /\ cdoc = <<>>
    /\ cout.raised = "none"
    /\ Len(cout.chunks) = 1 /\ cout.chunks[1].chunk_type = "full_document"

\* The lengths of the returned chunks.
ChunkLengths == [i \in DOMAIN cout.chunks |-> TLen(cout.chunks[i].text)]

(* C11: every chunk returned by chunk_by_legal_sections has at most 2,000
   characters, unless the result is one single full_document chunk; this holds
   after the size re-split, the forced re-split and the merge of short
   chunks. *)
C11_ChunksWithinMaxSize ==
    (cdone /\ cout.raised = "none") =>
        \/ \A i \in DOMAIN cout.chunks : ChunkLengths[i] <= max_chunk_size
        \/ Len(cout.chunks) = 1 /\ cout.chunks[1].chunk_type = "full_document"

\* The content of a text without its white space: the pieces in reading order.
Content(T) == [i \in DOMAIN T |-> [len |-> T[i].len, stop |-> T[i].stop]]

\* The content of the source document, line after line.
SourceContent == Content(Flatten([i \in DOMAIN cdoc |-> cdoc[i].pieces], 1))

\* The content of the returned chunks, chunk after chunk.
ChunkContent == Content(Flatten([i \in DOMAIN cout.chunks |-> cout.chunks[i].text], 1))

\* a[i..] can be read off b[j..] from left to right, skipping elements of b
RECURSIVE IsSubsequenceFrom(_, _, _, _)
IsSubsequenceFrom(a, i, b, j) ==
    IF i > Len(a) THEN TRUE
    ELSE IF j > Len(b) THEN FALSE
    ELSE IF a[i] = b[j] THEN IsSubsequenceFrom(a, i + 1, b, j + 1)
    ELSE IsSubsequenceFrom(a, i, b, j + 1)

(* C12: the texts of the returned chunks, in list order, contain all of the
   source content in source reading order: no line, paragraph or section of
   the source is missing from every chunk. *)
C12_ChunksCoverSource ==
    (cdone /\ cout.raised = "none") =>
        IsSubsequenceFrom(SourceContent, 1, ChunkContent, 1)

\* The metadata keys of the caller's dictionary (test_parent_child.py line 33).
CallerMetadataKeys == {"law_name", "year"}

\* The metadata keys the chunker can write into a chunk of the given type: the
\* caller's keys, the keys of the chunk it was split from, and its own.
MetadataKeys(chunk_type) ==
    CallerMetadataKeys \cup {"chunk_type"} \cup
    CASE chunk_type = "legal_section" ->
           {"section_type", "section_number", "section_title"}               \* lines 134-141
      [] chunk_type = "preamble" -> {}                                       \* lines 186-189
      [] chunk_type = "paragraph" -> {"chunk_index", "total_chunks"}         \* lines 225-230
      [] chunk_type \in {"sentence_based", "size_split_fallback"} ->
           {"chunk_index"}                                                   \* lines 250-315
      [] chunk_type = "full_document" -> {"warning"}                         \* lines 326-342
      [] chunk_type = "size_split" ->                                        \* lines 370-398, 424-450
           {"section_type", "section_number", "section_title", "chunk_index",
            "total_chunks", "warning", "original_chunk_type", "split_index",
            "split_from_large_chunk"}
      [] chunk_type = "force_split" -> {"chunk_index", "warning"}            \* lines 486-507

\* The chunk types of the pieces of a split section, chunk or document.
SplitTypes == {"sentence_based", "size_split_fallback", "size_split", "force_split"}

(* C21: every chunk that chunk_by_legal_sections makes by splitting an
   oversized section or chunk has is_child and parent_text (the text of the
   un-split section) in its metadata. *)
C21_SplitChunksAreChildren ==
    (cdone /\ cout.raised = "none") =>
        \A i \in DOMAIN cout.chunks :
            cout.chunks[i].chunk_type \in SplitTypes =>
                {"is_child", "parent_text"} \subseteq MetadataKeys(cout.chunks[i].chunk_type)

(* C22: when chunk_by_legal_sections returns two or more chunks, every one of
   them has at least 50 characters. *)
C22_NoShortChunk ==
    (cdone /\ cout.raised = "none" /\ Len(cout.chunks) >= 2) =>
        \A i \in DOMAIN cout.chunks : ChunkLengths[i] >= MERGE_MIN_CHARS

-----------------------------------------------------------------------------
(* vector_store.py: add_chunks and delete_document; rag_service.py:
   process_and_index_document.

   The collection is the set of its points; a point is its id and the payload
   fields document_id, chunk_id and full_text.  Ids are strings, modelled as
   sequences of characters.  The MD5 digest of add_chunks is modelled as
   collision-free: the digest of a string stands for that string. *)

HexChars == <<"0", "1", "2", "3", "4", "5", "6", "7", "8", "9", "a", "b", "c", "d", "e", "f">>

\* str(document.id) of two documents of the catalogue
DocumentIds == {<<"d", "1">>, <<"d", "2">>}

\* str(uuid.uuid4()), the n-th draw: every draw is a new id
Uuid(n) == <<"u", HexChars[n + 1]>>

\* Mutant of PointId: the chunk id is left out of the hashed string.
PointId_DocumentOnly(document_id, chunk_id) == [md5 |-> document_id \o <<"_">>]

\* Lines 130-133: the deterministic point id
PointId(document_id, chunk_id) == [md5 |-> document_id \o <<"_">> \o chunk_id]

\* Lines 113-160: the PointStruct of chunks[i]
PointOf(document_id, chunk) ==
    [id |-> PointId(document_id, chunk.chunk_id),
     document_id |-> document_id,
     chunk_id |-> chunk.chunk_id,
     full_text |-> chunk.text]

\* client.upsert (line 164): a point replaces the stored point of the same id;
\* of two points of one batch with the same id the later one stays.
Upsert(store, batch) ==
    LET kept == { i \in DOMAIN batch :
                    \A j \in DOMAIN batch : j > i => batch[j].id # batch[i].id }
    IN  { p \in store : \A i \in DOMAIN batch : batch[i].id # p.id }
        \cup { batch[i] : i \in kept }

\* Lines 97-171.  embeddings[i] raises IndexError when there are fewer
\* embeddings than chunks; client.upsert may raise; both are re-raised and
\* leave the collection as it was.
add_chunks(store, chunks, n_embeddings, document_id, client_ok) ==
    IF n_embeddings < Len(chunks) \/ ~client_ok
    THEN [store |-> store, raised |-> TRUE]
    ELSE [store |-> Upsert(store, [i \in DOMAIN chunks |-> PointOf(document_id, chunks[i])]),
          raised |-> FALSE]

\* Lines 263-274: client.scroll with limit=ScrollLimit and no offset returns one
\* page, at most ScrollLimit of the points whose payload names the document.
ScrollPages(store, document_id) ==
    LET matching == { p \in store : p.document_id = document_id }
    IN  { page \in SUBSET matching :
            Cardinality(page) = Min(Cardinality(matching), ScrollLimit) }

\* Lines 259-287: the points of the page the scroll returned are deleted; an
\* error of the client is re-raised.
delete_document(store, document_id, page, client_ok) ==
    IF ~client_ok THEN [store |-> store, raised |-> TRUE]
    ELSE [store |-> store \ page, raised |-> FALSE]

\* The documents that are ingested: two sections of 70 characters each, and a
\* note of 30 characters.
IndexDocs ==
    << <<HeaderLine, TextLine(<<Piece(60, TRUE)>>), HeaderLine, TextLine(<<Piece(60, TRUE)>>)>>,
       <<TextLine(<<Piece(30, TRUE)>>)>> >>

\* The entry of indexLog for a call that raised: it left the index as it was.
FailedCall(op) ==
    [op |-> op, document_id |-> <<>>, chunk_ids |-> {}, from |-> 0, raised |-> TRUE]

InitIndex ==
    /\ points = {}
    /\ staged = <<>>
    /\ stagedFrom = 0
    /\ uuidNext = 0
    /\ indexLog = <<>>
    /\ ThinkIdle /\ QueryIdle /\ RankIdle /\ ChunkIdle /\ SearchIdle /\ SessionIdle /\ ConcIdle

\* chunk_by_legal_sections on a document: every chunk gets a new uuid4 id
\* (document_processor.py lines 132, 184, 199, ...).
ChunkDocument ==
    \E j \in DOMAIN IndexDocs :
        LET r == chunk_by_legal_sections(IndexDocs[j])
        IN  /\ r.raised = "none"
            /\ uuidNext + Len(r.chunks) <= MaxUuids
            /\ staged' = [i \in DOMAIN r.chunks |->
                             [chunk_id |-> Uuid(uuidNext + i - 1), text |-> r.chunks[i].text]]
            /\ stagedFrom' = j
            /\ uuidNext' = uuidNext + Len(r.chunks)
            /\ UNCHANGED <<points, indexLog>>
    /\ UNCHANGED <<thinkVars, queryVars, rankVars, chunkVars, searchVars, sessionVars, concVars>>

\* vector_store.add_chunks(chunks, embeddings, document_id) with the chunks
\* of the last chunking.
AddChunks ==
    /\ staged # <<>>
    /\ Len(indexLog) < MaxIndexCalls
    /\ \E d \in DocumentIds, n \in {Len(staged) - 1, Len(staged)}, ok \in BOOLEAN :
          LET r == add_chunks(points, staged, n, d, ok)
          IN  /\ points' = r.store
              /\ indexLog' = Append(indexLog,
                     IF r.raised THEN FailedCall("add_chunks")
                     ELSE [op |-> "add_chunks", document_id |-> d,
                           chunk_ids |-> { staged[i].chunk_id : i \in DOMAIN staged },
                           from |-> stagedFrom, raised |-> FALSE])
    /\ UNCHANGED <<staged, stagedFrom, uuidNext>>
    /\ UNCHANGED <<thinkVars, queryVars, rankVars, chunkVars, searchVars, sessionVars, concVars>>

\* vector_store.delete_document(document_id)
DeleteDocument ==
    /\ Len(indexLog) < MaxIndexCalls
    /\ \E d \in DocumentIds, ok \in BOOLEAN :
       \E page \in ScrollPages(points, d) :
          LET r == delete_document(points, d, page, ok)
          IN  /\ points' = r.store
              /\ indexLog' = Append(indexLog,
                     IF r.raised THEN FailedCall("delete_document")
                     ELSE [op |-> "delete_document", document_id |-> d,
                           chunk_ids |-> {}, from |-> 0, raised |-> FALSE])
    /\ UNCHANGED <<staged, stagedFrom, uuidNext>>
    /\ UNCHANGED <<thinkVars, queryVars, rankVars, chunkVars, searchVars, sessionVars, concVars>>

\* rag_service.process_and_index_document (lines 508-570): embed_text is a
\* coroutine function called without await, so len(test_embedding) at line 533
\* raises TypeError before any chunk is made; the except clause re-raises.
ProcessAndIndexDocument ==
    /\ Len(indexLog) < MaxIndexCalls
    /\ indexLog' = Append(indexLog, FailedCall("process_and_index_document"))
    /\ UNCHANGED <<points, staged, stagedFrom, uuidNext>>
    /\ UNCHANGED <<thinkVars, queryVars, rankVars, chunkVars, searchVars, sessionVars, concVars>>

NextIndex == ChunkDocument \/ AddChunks \/ DeleteDocument \/ ProcessAndIndexDocument

SpecIndex == InitIndex /\ [][NextIndex]_vars

\* The add_chunks calls for the document that returned, made after the last
\* delete_document of it that returned.
AddsSinceDelete(d) ==
    { i \in DOMAIN indexLog :
        /\ indexLog[i].op = "add_chunks" /\ indexLog[i].document_id = d
        /\ ~indexLog[i].raised
        /\ \A j \in DOMAIN indexLog :
              (j > i /\ indexLog[j].op = "delete_document"
                /\ indexLog[j].document_id = d) => indexLog[j].raised }

PointsOfPair(d, c) == { p \in points : p.document_id = d /\ p.chunk_id = c }

PointsOfDocument(d) == { p \in points : p.document_id = d }

UuidsDrawn == { Uuid(n) : n \in 0..(uuidNext - 1) }

(* C7: the point id is a function of (document_id, chunk_id) alone, and a pair
   that add_chunks has upserted, once or several times, in any sequence of
   calls, has exactly one point in the index (until delete_document removes
   the document). *)
C7_OnePointPerPair ==
    \A d \in DocumentIds, c \in UuidsDrawn :
        /\ \A p \in PointsOfPair(d, c) : p.id = PointId(d, c)
        /\ (\E i \in AddsSinceDelete(d) : c \in indexLog[i].chunk_ids)
              => Cardinality(PointsOfPair(d, c)) = 1

\* C7 witness: the same pair was upserted by two add_chunks calls and has one point.
C7_Witness ==
    \E d \in DocumentIds, c \in UuidsDrawn :
        /\ Cardinality({ i \in AddsSinceDelete(d) : c \in indexLog[i].chunk_ids }) >= 2
        /\ Cardinality(PointsOfPair(d, c)) = 1
        /\ Cardinality(PointsOfDocument(d)) = 2

(* C8: when the same document text is ingested under the same document_id
   (chunked, embedded, added with add_chunks) once or twice with no delete in
   between, the index holds one point per chunk of the document. *)
C8_ReingestOverwrites ==
    \A d \in DocumentIds, j \in DOMAIN IndexDocs :
        (/\ AddsSinceDelete(d) # {}
         /\ \A i \in AddsSinceDelete(d) : indexLog[i].from = j)
          => Cardinality(PointsOfDocument(d))
               = Len(chunk_by_legal_sections(IndexDocs[j]).chunks)

\* The last call on the index was a delete_document that returned.
LastDeleteReturned ==
    /\ indexLog # <<>>
    /\ indexLog[Len(indexLog)].op = "delete_document"
    /\ ~indexLog[Len(indexLog)].raised

(* C16: after delete_document(d) returns without error the index holds no
   point whose payload document_id is d, however many points the document had
   before the call. *)
C16_DeleteRemovesAll ==
    LastDeleteReturned => PointsOfDocument(indexLog[Len(indexLog)].document_id) = {}

-----------------------------------------------------------------------------
(* vector_store.py: search.

   The index answers a query vector with a ranking of its points.  The dense
   ranking and, when a sparse query vector is given, the sparse ranking are
   inputs; search sends two prefetches of 2 * top_k and has the index fuse
   them by Reciprocal Rank Fusion.  The fusion runs inside the Qdrant server:
   it is modelled as the glossary defines it, the sum over the lists of
   1 / (k + rank), with the constant k left open (0: plain reciprocal ranks,
   1: Qdrant's 1 / (position + 2), 60: the constant of the RRF paper).
   Scores are fractions [num, den] compared by cross-multiplication; points
   of equal score may come in either order. *)

SearchPoints == <<"p1", "p2", "p3", "p4", "p5">>

TopKs == {1, 2}

RrfKs == {0, 1, 60}

\* min_score: 0.0 (the default of search) and 0.1 (process_query)
MinScores == {Frac(0, 1), Frac(1, 10)}

FracAdd(x, y) == Frac(x.num * y.den + y.num * x.den, x.den * y.den)

FracGeq(x, y) == x.num * y.den >= y.num * x.den

\* The 1-based rank of p in the list, 0 when p is not in it.
RankIn(list, p) ==
    IF \E i \in DOMAIN list : list[i] = p
    THEN CHOOSE i \in DOMAIN list : list[i] = p
    ELSE 0

RrfTerm(list, p, k) ==
    IF RankIn(list, p) = 0 THEN Frac(0, 1) ELSE Frac(1, k + RankIn(list, p))

RrfScore(dense, sparse, p, k) == FracAdd(RrfTerm(dense, p, k), RrfTerm(sparse, p, k))

\* The orders of the points by descending fused score.
RECURSIVE FusedOrders(_, _, _, _)
FusedOrders(U, dense, sparse, k) ==
    IF U = {} THEN {<<>>}
    ELSE UNION { { <<m>> \o o : o \in FusedOrders(U \ {m}, dense, sparse, k) } :
                 m \in { x \in U : \A y \in U :
                           FracGeq(RrfScore(dense, sparse, x, k),
                                   RrfScore(dense, sparse, y, k)) } }

\* "limit=top_k * 2" (lines 214 and 220)
PrefetchLimit(top_k) == top_k * 2

\* Mutant of HybridWanted: the sparse vector is never used.
HybridWanted_Never(sparse) == FALSE

\* "if sparse_embedding" (line 203): None and the empty dict take the dense branch
HybridWanted(sparse) == sparse.k = "list" /\ sparse.v # <<>>

\* Lines 203-231: the results of the hybrid query, for each order the index
\* may fuse to: the points under score_threshold go (when min_score > 0), the
\* first top_k stay.
HybridResults(dense, sparse, top_k, min_score, k) ==
    LET d == Take(dense, PrefetchLimit(top_k))
        s == Take(sparse, PrefetchLimit(top_k))
        passes(p) == min_score.num > 0 => FracGeq(RrfScore(d, s, p, k), min_score)
    IN  { Take(SelectSeq(o, passes), top_k) :
            o \in FusedOrders(Range(d) \cup Range(s), d, s, k) }

\* Lines 233-241: the dense-only query returns the first top_k of the dense
\* ranking whose cosine score reaches min_score: a prefix of it.
DenseResults(dense, top_k) ==
    { Take(dense, n) : n \in 0..Min(top_k, Len(dense)) }

\* search(query_embedding, top_k, min_score, sparse_embedding): the lists of
\* point ids it may return; an exception of the client gives [].
search(dense, sparse, top_k, min_score, k) ==
    {<<>>} \cup
    (IF HybridWanted(sparse)
     THEN HybridResults(dense, sparse.v, top_k, min_score, k)
     ELSE DenseResults(dense, top_k))

\* The rankings of n of the points, without repetition.
Rankings(n) ==
    { r \in [1..n -> Range(SearchPoints)] : \A i, j \in 1..n : i # j => r[i] # r[j] }

\* The dense ranking lists the points in their numbering: the names of the
\* points carry no meaning, so this fixes one of the equivalent renamings.
InitSearch ==
    /\ sdense \in { Take(SearchPoints, n) : n \in 0..Len(SearchPoints) }
    /\ ssparse \in {NoneList} \cup
                   { SomeList(r) : r \in UNION { Rankings(n) : n \in 0..Len(SearchPoints) } }
    /\ stopk \in TopKs
    /\ srrfk \in RrfKs
    /\ sminscore \in MinScores
    /\ sout = <<>>
    /\ sdone = FALSE
    /\ ThinkIdle /\ QueryIdle /\ RankIdle /\ ChunkIdle /\ IndexIdle /\ SessionIdle /\ ConcIdle

SearchCall ==
    /\ ~sdone
    /\ sout' \in search(sdense, ssparse, stopk, sminscore, srrfk)
    /\ sdone' = TRUE
    /\ UNCHANGED <<sdense, ssparse, stopk, srrfk, sminscore>>
    /\ UNCHANGED <<thinkVars, queryVars, rankVars, chunkVars, indexVars, sessionVars, concVars>>

NextSearch == SearchCall

SpecSearch == InitSearch /\ [][NextSearch]_vars

\* Both query vectors were given: the two prefetch lists of the search.
BothGiven == ssparse.k = "list" /\ ssparse.v # <<>>

DensePrefetch == Take(sdense, 2 * stopk)

SparsePrefetch == IF ssparse.k = "list" THEN Take(ssparse.v, 2 * stopk) ELSE <<>>

InBoth(p) == RankIn(DensePrefetch, p) > 0 /\ RankIn(SparsePrefetch, p) > 0

InOne(p) == (RankIn(DensePrefetch, p) > 0) # (RankIn(SparsePrefetch, p) > 0)

\* p is returned, and before q if q is returned
Ahead(p, q) ==
    RankIn(sout, q) > 0 => (RankIn(sout, p) > 0 /\ RankIn(sout, p) < RankIn(sout, q))

\* the better of the two ranks of a point of both lists
BestRank(p) == Min(RankIn(DensePrefetch, p), RankIn(SparsePrefetch, p))

\* the rank of a point of one list in that list
OwnRank(q) == RankIn(DensePrefetch, q) + RankIn(SparsePrefetch, q)

(* C9 as stated: in a hybrid search every point of both prefetch lists is
   ranked in the returned top_k ahead of every point of only one list. *)
C9_OverlapAlwaysFirst ==
    (sdone /\ BothGiven) =>
        \A p, q \in Range(SearchPoints) : (InBoth(p) /\ InOne(q)) => Ahead(p, q)

(* C9 amended: in a hybrid search every point of both prefetch lists is ranked
   ahead of every point of only one list whose rank in that list is no better
   than the better of the first point's two ranks: when such a single-list
   point is returned, the point of both lists is returned before it. *)
C9_OverlapFirstAmongNoBetterRanked ==
    (sdone /\ BothGiven) =>
        \A p, q \in Range(SearchPoints) :
            (InBoth(p) /\ InOne(q) /\ OwnRank(q) >= BestRank(p)) => Ahead(p, q)

\* C9 witness: a hybrid search returned a point of both lists first and, behind
\* it, a point of one list whose rank there is no better.
C9_Witness ==
    /\ sdone /\ BothGiven /\ stopk = 2 /\ Len(sout) = 2
    /\ \E p, q \in Range(SearchPoints) :
          /\ InBoth(p) /\ InOne(q) /\ OwnRank(q) >= BestRank(p)
          /\ RankIn(sout, p) = 1 /\ RankIn(sout, q) = 2

-----------------------------------------------------------------------------
(* otp_service.py: generate_otp and verify_otp.

   Redis holds one key otp:<phone> per phone number.  Every await of a Redis
   command is a point where the event loop runs other requests, so a
   verify_otp call is two steps: the GET, and the comparison with the DELETE.
   The expiry of the key (SETEX with OTP_EXPIRY_SECONDS) is a step of Redis. *)

\* str(random.randint(100000, 999999)): the two ends of the range
OtpCodes == {"100000", "999999"}

\* The codes a caller submits: the issued ones and a wrong one.
SubmittedCodes == OtpCodes \cup {"000000"}

\* generate_otp(phone_number): SETEX stores the code, replacing an older one;
\* an error of Redis is caught and ("", False) is returned.
GenerateOtp ==
    \E p \in Phones, code \in OtpCodes, redis_ok \in BOOLEAN :
        /\ otpIssued[p] < MaxOtps
        /\ IF redis_ok
           THEN /\ otpStore' = [otpStore EXCEPT ![p] = code]
                /\ otpIssued' = [otpIssued EXCEPT ![p] = @ + 1]
           ELSE UNCHANGED <<otpStore, otpIssued>>
        /\ UNCHANGED <<verifying, accepted, otpCalls>>
        /\ UNCHANGED <<thinkVars, queryVars, rankVars, storeVars, onbVars, concVars>>

\* verify_otp lines 48-50: stored_otp = await redis.get(key).  An error of
\* Redis is caught at line 61 and the call returns False.
VerifyGet(r) ==
    /\ verifying[r] = NotVerifying
    /\ otpCalls < MaxVerifyCalls
    /\ otpCalls' = otpCalls + 1
    /\ \E p \in Phones, otp \in SubmittedCodes, redis_ok \in BOOLEAN :
          verifying' = [verifying EXCEPT ![r] =
              IF redis_ok
              THEN [pc |-> "got", phone |-> p, otp |-> otp,
                    stored_otp |-> otpStore[p], issue |-> otpIssued[p]]
              ELSE [pc |-> "return", phone |-> p, otp |-> otp, value |-> FALSE,
                    issue |-> otpIssued[p]]]
    /\ UNCHANGED <<otpStore, otpIssued, accepted>>
    /\ UNCHANGED <<thinkVars, queryVars, rankVars, storeVars, onbVars, concVars>>

\* verify_otp lines 52-60: when the stored code equals the submitted one the
\* key is deleted and True is returned; an error of the DELETE returns False.
VerifyCompare(r) ==
    /\ verifying[r].pc = "got"
    /\ LET v == verifying[r]
           matches == v.stored_otp # None /\ v.stored_otp = v.otp
       IN  \E redis_ok \in BOOLEAN :
              /\ matches \/ redis_ok
              /\ otpStore' = IF matches /\ redis_ok
                             THEN [otpStore EXCEPT ![v.phone] = None]
                             ELSE otpStore
              /\ verifying' = [verifying EXCEPT ![r] =
                     [pc |-> "return", phone |-> v.phone, otp |-> v.otp,
                      value |-> matches /\ redis_ok, issue |-> v.issue]]
    /\ UNCHANGED <<otpIssued, accepted, otpCalls>>
    /\ UNCHANGED <<thinkVars, queryVars, rankVars, storeVars, onbVars, concVars>>

\* verify_otp returns to verify_link_otp (routers/onboarding.py line 223).
VerifyReturn(r) ==
    /\ verifying[r].pc = "return"
    /\ accepted' = IF verifying[r].value
                   THEN [accepted EXCEPT ![verifying[r].phone][verifying[r].issue] = @ + 1]
                   ELSE accepted
    /\ verifying' = [verifying EXCEPT ![r] = NotVerifying]
    /\ UNCHANGED <<otpStore, otpIssued, otpCalls>>
    /\ UNCHANGED <<thinkVars, queryVars, rankVars, storeVars, onbVars, concVars>>

\* Redis removes the key when its time to live (OTP_EXPIRY_SECONDS) is over.
OtpExpires ==
    \E p \in Phones :
        /\ otpStore[p] # None
        /\ otpStore' = [otpStore EXCEPT ![p] = None]
        /\ UNCHANGED <<otpIssued, verifying, accepted, otpCalls>>
        /\ UNCHANGED <<thinkVars, queryVars, rankVars, storeVars, onbVars, concVars>>

InitOtp ==
    /\ OtpIdle
    /\ ThinkIdle /\ QueryIdle /\ RankIdle /\ StoreIdle /\ OnbIdle /\ ConcIdle

NextOtp ==
    \/ GenerateOtp
    \/ OtpExpires
    \/ \E r \in Requests : VerifyGet(r) \/ VerifyCompare(r) \/ VerifyReturn(r)

SpecOtp == InitOtp /\ [][NextOtp]_vars

(* C19: an OTP is single-use: of the verify_otp calls that read the code one
   generate_otp call stored for a phone number, at most one returns True, over
   every sequence and every interleaving of concurrent verify_otp calls. *)
C19_OtpSingleUse ==
    \A p \in Phones, n \in 1..MaxOtps : accepted[p][n] <= 1

-----------------------------------------------------------------------------
(* onboarding_service.py: normalize_user_response and handle_onboarding_step.

   A user response and a payload are sequences of characters.  The session is
   the ConversationSession object the request works on; a call that raises
   leaves it as it was (the transaction is not committed). *)

P_consent_yes == <<"c","o","n","s","e","n","t","_","y","e","s">>
P_consent_no == <<"c","o","n","s","e","n","t","_","n","o">>
P_learn_about_tax == <<"l","e","a","r","n","_","a","b","o","u","t","_","t","a","x">>
P_check_applies == <<"c","h","e","c","k","_","a","p","p","l","i","e","s">>
P_organise_docs == <<"o","r","g","a","n","i","s","e","_","d","o","c","s">>
P_get_filing_ready == <<"g","e","t","_","f","i","l","i","n","g","_","r","e","a","d","y">>
P_talk_expert == <<"t","a","l","k","_","e","x","p","e","r","t">>
P_salaried_only == <<"s","a","l","a","r","i","e","d","_","o","n","l","y">>
P_salaried_side == <<"s","a","l","a","r","i","e","d","_","s","i","d","e">>
P_freelancer == <<"f","r","e","e","l","a","n","c","e","r">>
P_small_business == <<"s","m","a","l","l","_","b","u","s","i","n","e","s","s">>
P_business_staff == <<"b","u","s","i","n","e","s","s","_","s","t","a","f","f">>
P_unemployed == <<"u","n","e","m","p","l","o","y","e","d">>
P_learning == <<"l","e","a","r","n","i","n","g">>
P_info_only == <<"i","n","f","o","_","o","n","l","y">>
P_want_organised == <<"w","a","n","t","_","o","r","g","a","n","i","s","e","d">>
P_need_help == <<"n","e","e","d","_","h","e","l","p">>
P_need_expert == <<"n","e","e","d","_","e","x","p","e","r","t">>
P_multiple_income_yes == <<"m","u","l","t","i","p","l","e","_","i","n","c","o","m","e","_","y","e","s">>

\* ONBOARDING_STEPS (lines 14-61): the quick replies of every step, titles and payloads
ONBOARDING_STEPS ==
    [
     consent |->
       << [title |-> <<"C","o","n","t","i","n","u","e">>, payload |-> P_consent_yes],
          [title |-> <<"C","a","n","c","e","l">>, payload |-> P_consent_no] >>,
     goal |->
       << [title |-> <<"L","e","a","r","n"," ","a","b","o","u","t"," ","t","a","x">>, payload |-> P_learn_about_tax],
          [title |-> <<"C","h","e","c","k"," ","w","h","a","t"," ","a","p","p","l","i","e","s"," ","t","o"," ","m","e">>, payload |-> P_check_applies],
          [title |-> <<"O","r","g","a","n","i","s","e"," ","r","e","c","e","i","p","t","s"," ","a","n","d"," ","d","o","c","u","m","e","n","t","s">>, payload |-> P_organise_docs],
          [title |-> <<"G","e","t"," ","f","i","l","i","n","g"," ","r","e","a","d","y">>, payload |-> P_get_filing_ready],
          [title |-> <<"T","a","l","k"," ","t","o"," ","a","n"," ","e","x","p","e","r","t">>, payload |-> P_talk_expert] >>,
     income_type |->
       << [title |-> <<"S","a","l","a","r","i","e","d"," ","e","m","p","l","o","y","e","e"," ","o","n","l","y">>, payload |-> P_salaried_only],
          [title |-> <<"S","a","l","a","r","i","e","d"," ","+"," ","s","i","d","e"," ","i","n","c","o","m","e">>, payload |-> P_salaried_side],
          [title |-> <<"F","r","e","e","l","a","n","c","e","r"," ","/"," ","g","i","g"," ","w","o","r","k","e","r">>, payload |-> P_freelancer],
          [title |-> <<"S","m","a","l","l"," ","b","u","s","i","n","e","s","s"," ","(","n","o"," ","s","t","a","f","f",")">>, payload |-> P_small_business],
          [title |-> <<"B","u","s","i","n","e","s","s"," ","w","i","t","h"," ","s","t","a","f","f">>, payload |-> P_business_staff],
          [title |-> <<"U","n","e","m","p","l","o","y","e","d">>, payload |-> P_unemployed],
          [title |-> <<"J","u","s","t"," ","l","e","a","r","n","i","n","g">>, payload |-> P_learning] >>,
     income_complexity |-> <<>>,
     confidence |->
       << [title |-> <<"I"," ","j","u","s","t"," ","w","a","n","t"," ","i","n","f","o","r","m","a","t","i","o","n">>, payload |-> P_info_only],
          [title |-> <<"I"," ","w","a","n","t"," ","h","e","l","p"," ","g","e","t","t","i","n","g"," ","o","r","g","a","n","i","s","e","d">>, payload |-> P_want_organised],
          [title |-> <<"I"," ","n","e","e","d"," ","h","e","l","p"," ","p","r","e","p","a","r","i","n","g"," ","t","o"," ","f","i","l","e">>, payload |-> P_need_help],
          [title |-> <<"I"," ","n","e","e","d"," ","e","x","p","e","r","t"," ","s","u","p","p","o","r","t">>, payload |-> P_need_expert] >> ]

\* Responses a user sends
R_Continue == <<"C","o","n","t","i","n","u","e">>
R_One == <<"1">>
R_N == <<"n">>
R_Blank == <<" ">>
R_No == <<"n","o">>
P_multiple_income_no == <<"m","u","l","t","i","p","l","e","_","i","n","c","o","m","e","_","n","o">>
P_invoices_yes == <<"i","n","v","o","i","c","e","s","_","y","e","s">>
P_invoices_no == <<"i","n","v","o","i","c","e","s","_","n","o">>
P_invoices_unsure == <<"i","n","v","o","i","c","e","s","_","u","n","s","u","r","e">>
C_medium == <<"m","e","d","i","u","m">>
C_low == <<"l","o","w">>

\* The quick replies of the two complexity questions (lines 250-262)
SourcesReplies ==
    << [title |-> <<"Y","e","s">>, payload |-> P_multiple_income_yes],
       [title |-> <<"N","o">>, payload |-> P_multiple_income_no] >>
InvoicesReplies ==
    << [title |-> <<"Y","e","s">>, payload |-> P_invoices_yes],
       [title |-> <<"N","o">>, payload |-> P_invoices_no],
       [title |-> <<"N","o","t"," ","s","u","r","e">>, payload |-> P_invoices_unsure] >>

\* The user responses of the model.
Responses ==
    { P_consent_yes, P_consent_no, R_Continue, R_One, R_N, R_Blank, R_No, <<>>,
      P_freelancer, P_salaried_only }

\* step_config.get("quick_replies", []) of ONBOARDING_STEPS.get(step, {})
QuickReplies(step) ==
    IF step \in DOMAIN ONBOARDING_STEPS THEN ONBOARDING_STEPS[step] ELSE <<>>

\* The first reply of the list that passes the test, 0 when none does.
FirstReply(replies, Test(_)) ==
    LET hits == { i \in DOMAIN replies : Test(replies[i]) }
    IN  IF hits = {} THEN 0 ELSE CHOOSE i \in hits : \A j \in hits : i <= j

\* a in b or b in a
EitherContains(a, b) == IsSubstring(a, b) \/ IsSubstring(b, a)

\* int(s) of a stripped string: an optional sign and decimal digits
IsInt(s) ==
    LET digits == IF s # <<>> /\ s[1] \in {"+", "-"} THEN Tail(s) ELSE s
    IN  digits # <<>> /\ \A i \in DOMAIN digits : digits[i] \in Digits

DigitValue(c) == CHOOSE n \in 0..9 : <<"0","1","2","3","4","5","6","7","8","9">>[n + 1] = c

RECURSIVE DecimalValue(_)
DecimalValue(digits) ==
    IF digits = <<>> THEN 0
    ELSE 10 * DecimalValue(SubSeq(digits, 1, Len(digits) - 1))
         + DigitValue(digits[Len(digits)])

IntValue(s) ==
    IF s[1] = "-" THEN 0 - DecimalValue(Tail(s))
    ELSE IF s[1] = "+" THEN DecimalValue(Tail(s))
    ELSE DecimalValue(s)

\* normalize_user_response(user_response, step, step_config), lines 130-172
normalize_user_response(user_response, quick_replies) ==
    IF user_response = <<>> THEN user_response                     \* line 135
    ELSE
    LET u == Lower(Strip(user_response))
        exact == FirstReply(quick_replies, LAMBDA r : u = Lower(r.payload))
        title == FirstReply(quick_replies, LAMBDA r : EitherContains(u, Lower(r.title)))
        index == IF IsInt(u) THEN IntValue(u) - 1 ELSE 0 - 1
        partial == FirstReply(quick_replies,
                       LAMBDA r : \/ EitherContains(u, Lower(r.payload))
                                  \/ EitherContains(u, Lower(r.title)))
    IN  IF exact # 0 THEN quick_replies[exact].payload
        ELSE IF title # 0 THEN quick_replies[title].payload
        ELSE IF 0 <= index /\ index < Len(quick_replies)
             THEN quick_replies[index + 1].payload
        ELSE IF partial # 0 THEN quick_replies[partial].payload
        ELSE u

\* normalize_user_response on every step and response of the model, computed once
Normalized ==
    [step \in StepKeys, user_response \in Responses |->
        normalize_user_response(user_response, QuickReplies(step))]

\* step_def.get("message", ""): the question a step asks
StepMessage(step) ==
    CASE step = "consent" -> "ask_consent"
      [] step = "goal" -> "ask_goal"
      [] step = "income_type" -> "ask_income_type"
      [] step = "confidence" -> "ask_confidence"
      [] OTHER -> ""

\* assign_capability_level(user_type, income_complexity), lines 387-406
assign_capability_level(user_type, income_complexity) ==
    IF user_type = <<>> THEN 1                                       \* "if not user_type"
    ELSE IF user_type \in {P_salaried_only, P_unemployed, P_learning} THEN 1
    ELSE IF user_type \in {P_salaried_side, P_freelancer, P_small_business}
         THEN IF income_complexity = C_medium THEN 2 ELSE 1
    ELSE IF user_type = P_business_staff THEN 3
    ELSE 1

\* entry.get(field): None, here the empty string, when the entry lacks the field
EntryGet(entry, field) == IF field \in DOMAIN entry THEN entry[field] ELSE <<>>

\* create_user_profile(db, session, step_data), lines 327-384: the one profile
\* of the session is created, or updated when it exists.
create_user_profile(step_data) ==
    LET user_type == EntryGet(step_data.income_type, "user_type")
        resp == EntryGet(step_data.income_complexity, "response")
        income_complexity ==
            IF step_data.income_complexity = NoEntry THEN <<>>
            ELSE IF IsSubstring(P_multiple_income_yes, resp)
                    \/ IsSubstring(P_invoices_yes, resp)
                 THEN C_medium ELSE C_low
    IN  << [consent_given |-> "given" \in DOMAIN step_data.consent,
            user_type |-> user_type,
            confidence_level |-> EntryGet(step_data.confidence, "confidence_level"),
            capability_level |-> assign_capability_level(user_type, income_complexity)] >>

\* Lines 306-324: the session is updated and the dictionary returned; a step
\* that set no message takes the question and quick replies of the next step.
Proceed(s, profs, step_data, next_step, current_step, message, quick_replies, completed, new_status) ==
    LET ask == message = "" /\ next_step # None /\ next_step \in DOMAIN ONBOARDING_STEPS
    IN  [session  |-> [status |-> new_status, current_step |-> current_step,
                       step_data |-> step_data],
         profiles |-> profs,
         ret      |-> [message |-> IF ask THEN StepMessage(next_step) ELSE message,
                       next_step |-> next_step,
                       quick_replies |-> IF ask THEN SomeList(QuickReplies(next_step))
                                         ELSE quick_replies,
                       completed |-> completed,
                       status |-> new_status]]

\* handle_onboarding_step(db, session, step, user_response), lines 175-324.
\* db_ok: the database calls of the handler succeed.
handle_onboarding_step(s, profs, step, user_response, db_ok) ==
    LET normalized_response == Normalized[step, user_response]
        stored == [s.step_data EXCEPT ![step] =
                      [response |-> user_response, normalized |-> normalized_response]]
        needs_complexity ==
            normalized_response \in {P_salaried_side, P_freelancer, P_small_business,
                                     P_business_staff}
    IN  IF ~db_ok THEN [session |-> s, profiles |-> profs, ret |-> [raised |-> TRUE]]
        ELSE IF step = "consent" /\ normalized_response = P_consent_yes
        THEN Proceed(s, profs, [stored EXCEPT !.consent = [given |-> TRUE]],
                     "goal", "goal", "", SomeList(<<>>), FALSE, s.status)
        ELSE IF step = "consent"
        THEN \* lines 219-232: returns before session.status is assigned
             [session  |-> [s EXCEPT !.current_step = None, !.step_data = stored],
              profiles |-> profs,
              ret      |-> [message |-> "declined", next_step |-> None,
                            quick_replies |-> NoneList, completed |-> FALSE,
                            status |-> "enquiry"]]
        ELSE IF step = "goal"
        THEN Proceed(s, profs,
                     [stored EXCEPT !.goal = [intent_primary |-> normalized_response]],
                     "income_type", "income_type", "", SomeList(<<>>), FALSE, s.status)
        ELSE IF step = "income_type" /\ needs_complexity
        THEN LET sd == [stored EXCEPT !.income_type = [user_type |-> normalized_response]]
             IN  IF normalized_response = P_salaried_side
                 THEN Proceed(s, profs, sd, "income_complexity", "income_complexity",
                              "sources_question", SomeList(SourcesReplies), FALSE, s.status)
                 ELSE IF user_response \in {P_freelancer, P_small_business, P_business_staff}
                 THEN Proceed(s, profs, sd, "income_complexity", "income_complexity",
                              "invoices_question", SomeList(InvoicesReplies), FALSE, s.status)
                 ELSE Proceed(s, profs, sd, "income_complexity", "income_complexity",
                              "", SomeList(<<>>), FALSE, s.status)
        ELSE IF step = "income_type"
        THEN Proceed(s, profs,
                     [stored EXCEPT !.income_type = [user_type |-> normalized_response]],
                     "confidence", "confidence", "", SomeList(<<>>), FALSE, s.status)
        ELSE IF step = "income_complexity"
        THEN Proceed(s, profs,
                     [stored EXCEPT !.income_complexity = [response |-> normalized_response]],
                     "confidence", "confidence", "", SomeList(<<>>), FALSE, s.status)
        ELSE IF step = "confidence"
        THEN LET sd == [stored EXCEPT
                           !.confidence = [confidence_level |-> normalized_response]]
                 capability_level ==
                     assign_capability_level(EntryGet(sd.income_type, "user_type"),
                                             EntryGet(sd.income_complexity, "response"))
             IN  Proceed(s, create_user_profile(sd), sd, None, "guidance",
                         IF capability_level = 1 THEN "step_by_step_overview"
                         ELSE IF capability_level = 2 THEN "organise_overview"
                         ELSE "expert_overview",
                         SomeList(<<>>), TRUE, "active")
        ELSE \* a step with no branch: the response is stored, nothing else changes
             Proceed(s, profs, stored, None, s.current_step, "", SomeList(<<>>),
                     FALSE, s.status)

-----------------------------------------------------------------------------
(* SpecOnboarding: one session, started over POST /start and driven by
   POST /step requests that name any step *)

InitOnboarding ==
    /\ session = [status |-> "enquiry", current_step |-> None, step_data |-> NoStepData]
    /\ profiles = <<>>
    /\ obCall = NoCall
    /\ obReturn = NoResult
    /\ obCount = 0
    /\ consented = FALSE
    /\ ThinkIdle /\ QueryIdle /\ RankIdle /\ StoreIdle /\ OtpIdle /\ ConcIdle

\* routers/onboarding.py start_onboarding (lines 31-89): a session that is not
\* in the middle of onboarding is put on the consent step.
StartOnboarding ==
    /\ ~(session.status = "onboarding" /\ session.current_step # None)
    /\ session' = [session EXCEPT !.status = "onboarding", !.current_step = "consent"]
    /\ UNCHANGED <<profiles, obCall, obReturn, obCount, consented>>
    /\ UNCHANGED <<thinkVars, queryVars, rankVars, storeVars, otpVars, concVars>>

\* routers/onboarding.py process_onboarding_step (lines 92-146): a session that
\* is not active hands the request's step and response to handle_onboarding_step.
HandleOnboardingStep ==
    /\ session.status # "active"
    /\ obCount < MaxSteps
    /\ \E step \in StepKeys, user_response \in Responses, db_ok \in BOOLEAN :
          LET r == handle_onboarding_step(session, profiles, step, user_response, db_ok)
          IN  /\ session' = r.session
              /\ profiles' = r.profiles
              /\ obCall' = [step |-> step, user_response |-> user_response]
              /\ obReturn' = r.ret
              /\ consented' = (consented \/ (db_ok /\ step = "consent"
                                  /\ Normalized[step, user_response] = P_consent_yes))
    /\ obCount' = obCount + 1
    /\ UNCHANGED <<thinkVars, queryVars, rankVars, storeVars, otpVars, concVars>>

NextOnboarding == StartOnboarding \/ HandleOnboardingStep

SpecOnboarding == InitOnboarding /\ [][NextOnboarding]_vars

\* The last handle_onboarding_step call handled the consent step and returned.
ConsentHandled == obCall.step = "consent" /\ "raised" \notin DOMAIN obReturn

\* The response names the Continue reply: its payload, its title or its number.
ContinueReplies == {P_consent_yes, R_Continue, R_One}

\* Consent is recorded and the session is on step goal.
ConsentRecorded ==
    /\ session.step_data.consent = [given |-> TRUE]
    /\ session.current_step = "goal"
    /\ obReturn.next_step = "goal"

\* Onboarding has ended: status enquiry is returned with no next step.
OnboardingEnded ==
    /\ obReturn.status = "enquiry"
    /\ obReturn.next_step = None
    /\ session.current_step = None

(* C20: handling the consent step with the response consent_yes records consent
   as given and advances the session to step goal; handling it with any other
   response (here: any response that is not the Continue reply by payload,
   title or number) ends onboarding, returning status enquiry with no next
   step. *)
C20_ConsentStep ==
    ConsentHandled =>
        /\ obCall.user_response = P_consent_yes => ConsentRecorded
        /\ obCall.user_response \notin ContinueReplies => OnboardingEnded

(* C29: a conversation session reaches status active (onboarding completed
   and a user profile created) only if consent was given earlier in that
   session: over every sequence of step requests, including requests that
   name a step other than the session's current step, no session becomes
   active without a prior consent_yes. *)
C29_ActiveOnlyAfterConsent ==
    (session.status = "active" \/ profiles # <<>>) => consented

-----------------------------------------------------------------------------
(* SpecLoop: process_query coroutines on one asyncio event loop.

   routers/rag.py awaits process_query inside the request handler, so every
   query is a coroutine of the server's single event loop thread.  A coroutine
   gives the thread back only at an await: line 108 (await think) and line 213
   (await generate_answer), both httpx.AsyncClient calls.  The calls between
   them are plain calls: embed_text / embed_sparse (lines 145-147, no await),
   VectorStore.search (line 149, the synchronous QdrantClient) and
   RerankerService.rank (line 190, the synchronous OpenAI client). *)

\* most process_query coroutines on the loop
MaxQueries == 2

Tasks == 1..MaxQueries

\* the calls process_query awaits, and the calls it makes without await
AwaitedStages == {"think", "generate"}
SyncStages    == {"search", "rerank"}

TaskAt(at, io) == [at |-> at, io |-> io]

\* The stages a coroutine can go on to when the call of its stage has returned:
\* the next stage, or the return of process_query (a direct response after
\* think, no candidates after search, no top chunk after rank).
StagesAfter(at) ==
    CASE at = "think"    -> {"embed", "done"}
      [] at = "embed"    -> {"search"}
      [] at = "search"   -> {"rerank", "done"}
      [] at = "rerank"   -> {"generate", "done"}
      [] at = "generate" -> {"done"}

InitLoop ==
    /\ task = [t \in Tasks |-> TaskAt("new", "none")]
    /\ thread = 0
    /\ ThinkIdle /\ QueryIdle /\ RankIdle /\ StoreIdle /\ SessionIdle /\ IngestIdle /\ LookupIdle

\* The loop starts a coroutine: it runs up to its first call, think().
LoopStart(t) ==
    /\ thread = 0 /\ task[t].at = "new"
    /\ task' = [task EXCEPT ![t] = TaskAt("think", "none")]
    /\ thread' = t
    /\ UNCHANGED <<thinkVars, queryVars, rankVars, storeVars, sessionVars, ingestVars, lookupVars>>

\* "await": the request is sent and the coroutine gives the thread back.
TaskAwait(t) ==
    /\ thread = t /\ task[t].io = "none" /\ task[t].at \in AwaitedStages
    /\ task' = [task EXCEPT ![t].io = "awaited"]
    /\ thread' = 0
    /\ UNCHANGED <<thinkVars, queryVars, rankVars, storeVars, sessionVars, ingestVars, lookupVars>>

\* The provider's response to an awaited request arrives at the socket.
ResponseArrives(t) ==
    /\ task[t].io = "awaited"
    /\ task' = [task EXCEPT ![t].io = "arrived"]
    /\ UNCHANGED thread
    /\ UNCHANGED <<thinkVars, queryVars, rankVars, storeVars, sessionVars, ingestVars, lookupVars>>

\* The loop resumes a coroutine whose awaited response has arrived; the
\* coroutine runs on to its next call, or returns.
LoopResume(t) ==
    /\ thread = 0 /\ task[t].io = "arrived"
    /\ \E nxt \in StagesAfter(task[t].at) :
          /\ task' = [task EXCEPT ![t] = TaskAt(nxt, "none")]
          /\ thread' = IF nxt = "done" THEN 0 ELSE t
    /\ UNCHANGED <<thinkVars, queryVars, rankVars, storeVars, sessionVars, ingestVars, lookupVars>>

\* embed_text(q) and embed_sparse(q), called without await: the calls return at
\* once (coroutine objects) and the coroutine keeps the thread.
TaskEmbed(t) ==
    /\ thread = t /\ task[t] = TaskAt("embed", "none")
    /\ task' = [task EXCEPT ![t] = TaskAt("search", "none")]
    /\ UNCHANGED thread
    /\ UNCHANGED <<thinkVars, queryVars, rankVars, storeVars, sessionVars, ingestVars, lookupVars>>

\* A plain call of a synchronous client: the thread sends the request and stays
\* inside the call until the response is there.
TaskCallSync(t) ==
    /\ thread = t /\ task[t].io = "none" /\ task[t].at \in SyncStages
    /\ task' = [task EXCEPT ![t].io = "blocking"]
    /\ UNCHANGED thread
    /\ UNCHANGED <<thinkVars, queryVars, rankVars, storeVars, sessionVars, ingestVars, lookupVars>>

\* The synchronous call returns; the coroutine runs on, or returns.
TaskReturnSync(t) ==
    /\ thread = t /\ task[t].io = "blocking"
    /\ \E nxt \in StagesAfter(task[t].at) :
          /\ task' = [task EXCEPT ![t] = TaskAt(nxt, "none")]
          /\ thread' = IF nxt = "done" THEN 0 ELSE t
    /\ UNCHANGED <<thinkVars, queryVars, rankVars, storeVars, sessionVars, ingestVars, lookupVars>>

\* A step the coroutine t itself takes (the arrival of a response is not one).
TaskStep(t) ==
    \/ LoopStart(t) \/ TaskAwait(t) \/ LoopResume(t)
    \/ TaskEmbed(t) \/ TaskCallSync(t) \/ TaskReturnSync(t)

NextLoop ==
    \E t \in Tasks :
        \/ LoopStart(t) \/ TaskAwait(t) \/ ResponseArrives(t) \/ LoopResume(t)
        \/ TaskEmbed(t) \/ TaskCallSync(t) \/ TaskReturnSync(t)

SpecLoop == InitLoop /\ [][NextLoop]_vars

\* The execution t has sent a request and its response is outstanding.
WaitingOnIo(t) == task[t].io \in {"awaited", "blocking"}

\* The execution u could run: it was submitted and not started, or the response
\* it awaited has arrived.
ReadyToRun(u) == task[u].at = "new" \/ task[u].io = "arrived"

(* C26: concurrent queries do not block each other at I/O boundaries: while one
   process_query execution is waiting on an embedding call, an index search or
   a reranker or generator provider call, another process_query execution
   submitted to the same event loop can make progress: if it is ready to run,
   it can take a step. *)
C26_NoBlockingAtIo ==
    \A t, u \in Tasks :
        (t # u /\ WaitingOnIo(t) /\ ReadyToRun(u) /\ thread \in {0, t})
            => ENABLED TaskStep(u)

-----------------------------------------------------------------------------
(* SpecIngest: concurrent ingestions of one document.

   routers/admin/rag.py process_document_async, lines 745-799: an ingestion
   deletes the document's points (vector_store.delete_document, an error is
   logged and ignored), then chunks the text and adds the chunks
   (rag_service.process_and_index_document: chunking with new uuid4 chunk ids,
   then vector_store.add_chunks).  The index is a Qdrant server that several
   ingestions reach; the code takes no lock, so the calls of two ingestions on
   the index come in any order.  The embedding service is modelled by its
   interface, as in SpecIndex. *)

\* most ingestions of the document that run at the same time
MaxJobs == 2

Jobs == 1..MaxJobs

\* str(document.id) of the document that is reprocessed
IngestDocument == <<"d", "1">>

\* An ingestion: its position, the text it ingests, whether its delete_document
\* returned ("ok") or raised, and the chunks it made.
JobAt(at, doc, del, chunks) == [pc |-> at, doc |-> doc, del |-> del, chunks |-> chunks]

\* The points an ingestion adds for its chunks.
PointsOfJob(k) ==
    { PointOf(IngestDocument, ingest[k].chunks[i]) : i \in DOMAIN ingest[k].chunks }

InitIngest ==
    /\ \E j \in DOMAIN IndexDocs : ingest = [k \in Jobs |-> JobAt("start", j, "none", <<>>)]
    /\ points = {}
    /\ staged = <<>> /\ stagedFrom = 0 /\ uuidNext = 0 /\ indexLog = <<>>
    /\ ThinkIdle /\ QueryIdle /\ RankIdle /\ ChunkIdle /\ SearchIdle /\ SessionIdle
    /\ LoopIdle /\ LookupIdle

\* Lines 745-759: vector_store.delete_document(str(document.id)); an exception
\* is logged and the ingestion goes on.
IngestDelete(k) ==
    /\ ingest[k].pc = "start"
    /\ \E ok \in BOOLEAN : \E page \in ScrollPages(points, IngestDocument) :
          LET r == delete_document(points, IngestDocument, page, ok)
          IN  /\ points' = r.store
              /\ ingest' = [ingest EXCEPT ![k].pc = "deleted",
                                          ![k].del = IF r.raised THEN "raised" ELSE "ok"]
    /\ UNCHANGED <<staged, stagedFrom, uuidNext, indexLog>>
    /\ UNCHANGED <<thinkVars, queryVars, rankVars, chunkVars, searchVars, sessionVars, loopVars, lookupVars>>

\* rag_service.py lines 535-546: process_document_for_rag chunks the text; every
\* chunk gets a new uuid4 chunk id.
IngestChunk(k) ==
    /\ ingest[k].pc = "deleted"
    /\ LET r == chunk_by_legal_sections(IndexDocs[ingest[k].doc])
       IN  /\ r.raised = "none"
           /\ uuidNext + Len(r.chunks) <= MaxUuids
           /\ ingest' = [ingest EXCEPT ![k].pc = "chunked", ![k].chunks =
                  [i \in DOMAIN r.chunks |->
                      [chunk_id |-> Uuid(uuidNext + i - 1), text |-> r.chunks[i].text]]]
           /\ uuidNext' = uuidNext + Len(r.chunks)
    /\ UNCHANGED <<points, staged, stagedFrom, indexLog>>
    /\ UNCHANGED <<thinkVars, queryVars, rankVars, chunkVars, searchVars, sessionVars, loopVars, lookupVars>>

\* rag_service.py lines 554-560: vector_store.add_chunks; its exception is
\* re-raised and the ingestion ends as failed.
IngestAdd(k) ==
    /\ ingest[k].pc = "chunked"
    /\ \E ok \in BOOLEAN :
          LET r == add_chunks(points, ingest[k].chunks, Len(ingest[k].chunks),
                              IngestDocument, ok)
          IN  /\ points' = r.store
              /\ ingest' = [ingest EXCEPT ![k].pc = IF r.raised THEN "failed" ELSE "done"]
    /\ UNCHANGED <<staged, stagedFrom, uuidNext, indexLog>>
    /\ UNCHANGED <<thinkVars, queryVars, rankVars, chunkVars, searchVars, sessionVars, loopVars, lookupVars>>

NextIngest == \E k \in Jobs : IngestDelete(k) \/ IngestChunk(k) \/ IngestAdd(k)

SpecIngest == InitIngest /\ [][NextIngest]_vars

(* C27: when two ingestions of the same document_id run concurrently, each a
   delete_document followed by add_chunks, then under every interleaving of
   their steps, once both have completed the index holds the chunk set of
   exactly one ingestion: no chunk of the document is indexed twice.  (Only
   ingestions whose delete_document and add_chunks both returned count.) *)
C27_OneIngestionIndexed ==
    (\A k \in Jobs : ingest[k].pc = "done" /\ ingest[k].del = "ok") =>
        /\ \E k \in Jobs : PointsOfDocument(IngestDocument) = PointsOfJob(k)
        /\ \A p, q \in PointsOfDocument(IngestDocument) :
               p.full_text = q.full_text => p = q

-----------------------------------------------------------------------------
(* SpecLookup: concurrent get_or_create_session calls.

   onboarding_service.py lines 64-112.  A call selects the rows of its
   identifier (an await), and after that either updates the row it found or
   inserts a new row, and commits (a second await).  Every request has its own
   database session; conversation_sessions.user_identifier has an index and no
   unique constraint (models.py line 67), so every insert succeeds. *)

\* most get_or_create_session calls in progress
MaxCallers == 3

Callers == 1..MaxCallers

Channels == {"web", "whatsapp"}

\* The identifiers the callers pass: a phone number as the web form and as the
\* WhatsApp webhook spell it ("whatsapp:" stands for the nine characters of the
\* prefix), and an e-mail address.
UserIdentifiers ==
    { <<"+", "2", "3", "4", " ", "1">>,
      <<"whatsapp:", "+", "2", "3", "4", "1">>,
      <<"a", "@", "b", " ">> }

\* Lines 77-80: clean_identifier
CleanIdentifier(user_identifier) ==
    LET bare  == SelectSeq(user_identifier, LAMBDA c : c \notin {"+", "-", " "})
        phone == SelectSeq(user_identifier, LAMBDA c : c \notin {"whatsapp:", "+", "-", " "})
    IN  IF \/ user_identifier # <<>> /\ user_identifier[1] = "whatsapp:"
           \/ bare # <<>> /\ \A i \in DOMAIN bare : bare[i] \in Digits
        THEN Strip(phone)
        ELSE Strip(user_identifier)

NoGetCall == [pc |-> "idle"]

\* The rows a select by the identifier returns.
RowsOf(clean_identifier) == { r \in sessionRows : r.user_identifier = clean_identifier }

InitLookup ==
    /\ sessionRows = {}
    /\ getCall = [c \in Callers |-> NoGetCall]
    /\ ThinkIdle /\ QueryIdle /\ RankIdle /\ StoreIdle /\ SessionIdle
    /\ LoopIdle /\ IngestIdle

\* Lines 77-88: the identifier is cleaned and the rows are selected;
\* scalar_one_or_none() returns the row, or None when there is none, and raises
\* MultipleResultsFound when there are several.
GetSelect(c) ==
    /\ getCall[c] = NoGetCall
    /\ \E user_identifier \in UserIdentifiers, channel \in Channels :
          LET clean == CleanIdentifier(user_identifier)
              rows  == RowsOf(clean)
          IN  getCall' = [getCall EXCEPT ![c] =
                  IF Cardinality(rows) >= 2
                  THEN [pc |-> "raised", user_identifier |-> clean, channel |-> channel]
                  ELSE [pc |-> "selected", user_identifier |-> clean, channel |-> channel,
                        found |-> IF rows = {} THEN 0 ELSE (CHOOSE r \in rows : TRUE).id]]
    /\ UNCHANGED sessionRows
    /\ UNCHANGED <<thinkVars, queryVars, rankVars, storeVars, sessionVars, loopVars, ingestVars>>

\* Lines 90-97: "if session": the row found is updated and returned.
GetUpdate(c) ==
    /\ getCall[c].pc = "selected" /\ getCall[c].found # 0
    /\ sessionRows' = { IF r.id = getCall[c].found
                         THEN [r EXCEPT !.channel = getCall[c].channel] ELSE r :
                         r \in sessionRows }
    /\ getCall' = [getCall EXCEPT ![c] =
           [pc |-> "returned", user_identifier |-> getCall[c].user_identifier,
            channel |-> getCall[c].channel, session |-> getCall[c].found]]
    /\ UNCHANGED <<thinkVars, queryVars, rankVars, storeVars, sessionVars, loopVars, ingestVars>>

\* Lines 99-112: no row was found: a new row is inserted and returned.
GetCreate(c) ==
    /\ getCall[c].pc = "selected" /\ getCall[c].found = 0
    /\ LET id == Cardinality(sessionRows) + 1
       IN  /\ sessionRows' = sessionRows \cup
                  { [id |-> id, user_identifier |-> getCall[c].user_identifier,
                     channel |-> getCall[c].channel, status |-> "enquiry"] }
           /\ getCall' = [getCall EXCEPT ![c] =
                  [pc |-> "returned", user_identifier |-> getCall[c].user_identifier,
                   channel |-> getCall[c].channel, session |-> id]]
    /\ UNCHANGED <<thinkVars, queryVars, rankVars, storeVars, sessionVars, loopVars, ingestVars>>

NextLookup == \E c \in Callers : GetSelect(c) \/ GetUpdate(c) \/ GetCreate(c)

SpecLookup == InitLookup /\ [][NextLookup]_vars

(* C30: for any user identifier at most one conversation session exists:
   get_or_create_session returns the existing session when there is one and
   creates a session only when there is none, so after any interleaving of
   concurrent get_or_create_session calls for the same identifier a lookup by
   that identifier finds exactly one session. *)
C30_OneSessionPerIdentifier ==
    /\ \A c \in Callers : getCall[c].pc # "raised"
    /\ \A c \in Callers :
          getCall[c].pc = "returned" =>
              /\ Cardinality(RowsOf(getCall[c].user_identifier)) = 1
              /\ \A r \in RowsOf(getCall[c].user_identifier) : r.id = getCall[c].session

=============================================================================
